---- MODULE Spec2Model ----
(***************************************************************************)
(* Model of the home-automation dashboard front end.  The room view        *)
(* (RoomPage.js, api.js): the device store, the REST calls in flight, the  *)
(* live-update WebSocket of the displayed room, the room canvas and its    *)
(* drag gestures, the device-creation form, and the handlers that write    *)
(* the store, the Devices and Settings tabs.  The application (App.js),   *)
(* the load of each protected page, and the forms of the dashboard and of  *)
(* the device settings.  Every handler runs to completion; the suspension  *)
(* points are the awaits on REST calls, modelled as requests in `pending`, *)
(* and the onload of a FileReader.                                         *)
(***************************************************************************)
EXTENDS Integers, Sequences, FiniteSets, Bags, TLC

VARIABLES
  mounted,      \* the RoomPage instance is mounted
  roomId,       \* numericRoomId of the current render
  room,         \* useState room (NoRoom = null)
  roomForm,     \* settings form as written by syncRoomForm
  devices,      \* useState devices: the device store (a sequence of records)
  loading,      \* useState loading
  refreshing,   \* useState refreshing
  error,        \* useState error
  wsStatus,     \* useState wsStatus
  socketRef,    \* socketRef.current: index into sockets, 0 = null
  sockets,      \* every WebSocket constructed by the effect, in creation order
  pending,      \* bag of REST calls awaited by a handler of this instance
  nav,          \* last target handed to navigate(), "" = none
  last,         \* history: the handler that ran last, with its input (of a
                \* frame the handler ignores, only that it was ignored)
  uStart,       \* upsert development: the starting store
  uPrev,        \* upsert development: the store before the last upsert
  uStore,       \* upsert development: the store
  uApplied,     \* upsert development: the payloads applied so far
  newDeviceName,      \* useState newDeviceName
  newDeviceType,      \* useState newDeviceType
  newDeviceLocation,  \* useState newDeviceLocation
  containerRef, \* RoomCanvas containerRef.current with its bounding rectangle
  draggingId,   \* RoomCanvas useState draggingId (NoId = null)
  dragStartRef, \* RoomCanvas dragStartRef.current
  didMoveRef,   \* RoomCanvas didMoveRef.current
  gestureFar,   \* history: an event of the gesture since its pointer-down,
                \* the release included, was more than 3px from that point
  user,         \* App useState user (NoUser = null)
  pathname,     \* the router's current path
  routed,       \* <Routes> has rendered the element of the current path
  page,         \* the page component that is mounted ("none" between routes)
  pageInst,     \* how many page components have been mounted so far
  pageLoading,  \* useState loading of the mounted page
  pageError,    \* useState error of the mounted page
  pageLoads,    \* bag of the load() calls awaited by page instances
  sessionExpired, \* history: a load of a logged-in user was answered 401/403
                \* and nobody has logged in since
  authToken,    \* localStorage item authToken (NoToken = no such item)
  authUser,     \* localStorage item authUser, parsed (NoUser = no such item)
  mode,         \* LoginPage useState mode
  loginError,   \* LoginPage useState error
  loginLoading, \* LoginPage useState loading
  authPending,  \* bag of the login, register and logout calls in flight
  issuedToken,  \* history: the token of the most recent successful login or
                \* register response (NoToken when it carried none)
  logoutInvoked, \* history: handleLogout was invoked since the last login or
                \* register that set the user
  pageForm,     \* useState of the mounted page next to loading and error:
                \* DashboardPage refreshing and its room and integration
                \* forms; DeviceSettingsPage device, savingEndpoint and its
                \* endpoint form
  pageCalls,    \* bag of the calls awaited by handlers of these pages
  activeTab,    \* RoomPage useState activeTab
  readers       \* the FileReader reads started by handleBackgroundFileChange
                \* whose onload has not fired yet

roomVars == <<mounted, roomId, room, roomForm, devices, loading, refreshing,
              error, wsStatus, socketRef, sockets, pending, nav, last>>
roomVars_NoLast == <<mounted, roomId, room, roomForm, devices, loading,
                     refreshing, error, wsStatus, socketRef, sockets, pending, nav>>
upsertVars == <<uStart, uPrev, uStore, uApplied>>
createVars == <<newDeviceName, newDeviceType, newDeviceLocation>>
canvasVars == <<containerRef, draggingId, dragStartRef, didMoveRef, gestureFar>>
appVars == <<user, pathname, routed, page, pageInst, pageLoading, pageError,
             pageLoads, sessionExpired>>
authVars == <<authToken, authUser, mode, loginError, loginLoading, authPending,
              issuedToken, logoutInvoked>>
formVars == <<pageForm, pageCalls>>
tabVars == <<activeTab, readers>>
\* what the handlers of the device list, the channel and the loads leave alone
otherVars == <<uStart, uPrev, uStore, uApplied,
               newDeviceName, newDeviceType, newDeviceLocation,
               containerRef, draggingId, dragStartRef, didMoveRef, gestureFar,
               user, pathname, routed, page, pageInst, pageLoading, pageError,
               pageLoads, sessionExpired,
               authToken, authUser, mode, loginError, loginLoading, authPending,
               issuedToken, logoutInvoked, pageForm, pageCalls,
               activeTab, readers>>
vars == <<mounted, roomId, room, roomForm, devices, loading, refreshing,
          error, wsStatus, socketRef, sockets, pending, nav, last,
          uStart, uPrev, uStore, uApplied,
          newDeviceName, newDeviceType, newDeviceLocation,
          containerRef, draggingId, dragStartRef, didMoveRef, gestureFar,
          user, pathname, routed, page, pageInst, pageLoading, pageError,
          pageLoads, sessionExpired,
          authToken, authUser, mode, loginError, loginLoading, authPending,
          issuedToken, logoutInvoked, pageForm, pageCalls,
          activeTab, readers>>

(***************************************************************************)
(* Bounds of the model.                                                    *)
(***************************************************************************)
MaxPending == 2
MaxSwitches == 1
MaxUpserts == 3
MaxMounts == 3
MaxAuthPending == 2

(***************************************************************************)
(* JavaScript values.  A device is a record whose DOMAIN is the set of     *)
(* fields the object carries; a missing field reads as undefined.          *)
(***************************************************************************)
NoId == 0
NoRoom == [id |-> 0]
Rooms == {1, 2}

\* d.id (undefined when the object has no id)
IdOf(d) == IF "id" \in DOMAIN d THEN d.id ELSE NoId

\* Boolean(d.is_on)
IsOn(d) == IF "is_on" \in DOMAIN d THEN d.is_on ELSE FALSE

RoomRecord(r) ==
  [id |-> r, name |-> IF r = 1 THEN "Kitchen" ELSE "Garage",
   slug |-> IF r = 1 THEN "kitchen" ELSE "garage", background_image_url |-> ""]

\* the device the server holds for each room: room 1 has device 1, room 2 device 3
DeviceIdOfRoom(r) == IF r = 1 THEN 1 ELSE 3

ServerDevice(r, on) ==
  [id |-> DeviceIdOfRoom(r), room |-> r, device_type |-> "light",
   signal_type |-> "digital", is_on |-> on]

\* room r's sensor: not a toggle
ServerSensor(r) ==
  [id |-> DeviceIdOfRoom(r) + 1, room |-> r, device_type |-> "sensor",
   signal_type |-> "analog", last_value |-> 20]

\* the lists GET /devices/?room=r answers with
DeviceLists(r) ==
  {<<>>} \cup {<<ServerDevice(r, on)>> : on \in BOOLEAN}
         \cup {<<ServerDevice(r, FALSE), ServerSensor(r)>>}

\* the lists GET /rooms/ answers with
RoomLists == {<<>>, <<RoomRecord(1), RoomRecord(2)>>}

\* partial device payloads of device_update messages on room r's channel
UpdatePayloads(r) ==
  {[id |-> DeviceIdOfRoom(r), is_on |-> on] : on \in BOOLEAN}
    \cup {[id |-> DeviceIdOfRoom(r) + 1, last_value |-> 21]}

\* a snapshot list that names one id twice
DuplicateList(r) == <<ServerDevice(r, TRUE), ServerDevice(r, FALSE)>>

\* no two records of a list share an id
UniqueIds(devs) ==
  \A i, j \in DOMAIN devs : IdOf(devs[i]) = IdOf(devs[j]) => i = j

(***************************************************************************)
(* api.js: the response interceptor turns every failure into one of two    *)
(* rejection shapes.                                                       *)
(***************************************************************************)
Bodies == {<<>>, [detail |-> ""], [detail |-> "Not allowed."]}
Statuses == {401, 403, 500}

\* what axios hands to the interceptor's error callback
AxiosErrors ==
  {[hasResponse |-> FALSE]} \cup
  {[hasResponse |-> TRUE, status |-> s, data |-> b] : s \in Statuses, b \in Bodies}

\* mutant of ResponseError: a failure without a response is reported as a
\* response of status 0
ResponseError_OneShape(e) ==
  IF ~e.hasResponse
  THEN [type |-> "api_error", status |-> 0, data |-> <<>>]
  ELSE [type |-> "api_error", status |-> e.status, data |-> e.data]

\* the rejection the response interceptor hands to the caller
ResponseError(e) ==
  IF ~e.hasResponse
  THEN [type |-> "network_error", message |-> "Unable to reach the server."]
  ELSE [type |-> "api_error", status |-> e.status, data |-> e.data]

\* history of a handler whose awaited call was rejected and whose catch block
\* ran: whether the server had responded, the type and the fields of the
\* rejection the handler received, and the body the server sent
Rejected(op, q, e) ==
  [op |-> op, req |-> q, responded |-> e.hasResponse,
   type |-> ResponseError(e).type, fields |-> DOMAIN ResponseError(e),
   caught |-> TRUE, body |-> IF e.hasResponse THEN e.data ELSE <<>>]

\* mutant of ErrorDetail: the detail is read from the axios error only
ErrorDetail_AxiosOnly(err, fallback) ==
  IF "response" \in DOMAIN err /\ "data" \in DOMAIN err.response
     /\ "detail" \in DOMAIN err.response.data /\ err.response.data.detail # ""
  THEN err.response.data.detail
  ELSE fallback

\* err?.data?.detail || err?.response?.data?.detail || fallback
ErrorDetail(err, fallback) ==
  LET viaData == "data" \in DOMAIN err /\ "detail" \in DOMAIN err.data
                 /\ err.data.detail # ""
      viaResponse == "response" \in DOMAIN err /\ "data" \in DOMAIN err.response
                     /\ "detail" \in DOMAIN err.response.data
                     /\ err.response.data.detail # ""
  IN IF viaData THEN err.data.detail
     ELSE IF viaResponse THEN err.response.data.detail
     ELSE fallback

\* err?.status || err?.response?.status
ErrorStatus(err) ==
  IF "status" \in DOMAIN err THEN err.status
  ELSE IF "response" \in DOMAIN err /\ "status" \in DOMAIN err.response
       THEN err.response.status
  ELSE 0

(***************************************************************************)
(* The device store operations of RoomPage.js.                             *)
(***************************************************************************)
\* { ...d, ...u }
ShallowMerge(d, u) ==
  [f \in DOMAIN d \cup DOMAIN u |-> IF f \in DOMAIN u THEN u[f] ELSE d[f]]

\* mutants of applyDeviceUpdate: the payload replaces the record it should
\* merge into; a known id is appended again; a new id is put first
applyDeviceUpdate_Replace(devs, updatedDevice) ==
  LET exists == \E i \in DOMAIN devs : IdOf(devs[i]) = IdOf(updatedDevice)
  IN IF ~exists
     THEN Append(devs, updatedDevice)
     ELSE [i \in DOMAIN devs |->
             IF IdOf(devs[i]) = IdOf(updatedDevice) THEN updatedDevice ELSE devs[i]]

applyDeviceUpdate_AlwaysAppend(devs, updatedDevice) == Append(devs, updatedDevice)

applyDeviceUpdate_Prepend(devs, updatedDevice) ==
  LET exists == \E i \in DOMAIN devs : IdOf(devs[i]) = IdOf(updatedDevice)
  IN IF ~exists
     THEN <<updatedDevice>> \o devs
     ELSE [i \in DOMAIN devs |->
             IF IdOf(devs[i]) = IdOf(updatedDevice)
             THEN ShallowMerge(devs[i], updatedDevice)
             ELSE devs[i]]

\* mutant of applyDeviceUpdate: the fields the store already has win over
\* the payload's
applyDeviceUpdate_KeepExisting(devs, updatedDevice) ==
  LET exists == \E i \in DOMAIN devs : IdOf(devs[i]) = IdOf(updatedDevice)
  IN IF ~exists
     THEN Append(devs, updatedDevice)
     ELSE [i \in DOMAIN devs |->
             IF IdOf(devs[i]) = IdOf(updatedDevice)
             THEN ShallowMerge(updatedDevice, devs[i])
             ELSE devs[i]]

applyDeviceUpdate(devs, updatedDevice) ==
  LET exists == \E i \in DOMAIN devs : IdOf(devs[i]) = IdOf(updatedDevice)
  IN IF ~exists
     THEN Append(devs, updatedDevice)
     ELSE [i \in DOMAIN devs |->
             IF IdOf(devs[i]) = IdOf(updatedDevice)
             THEN ShallowMerge(devs[i], updatedDevice)
             ELSE devs[i]]

\* mutant of OptimisticFlip: the store is not written before the command
OptimisticFlip_Skipped(devs, id, nextState) == devs

\* prev.map(d => d.id === id ? { ...d, is_on: nextState } : d)
OptimisticFlip(devs, id, nextState) ==
  [i \in DOMAIN devs |->
     IF IdOf(devs[i]) = id
     THEN ShallowMerge(devs[i], [is_on |-> nextState])
     ELSE devs[i]]

\* prev.map(d => d.id === id ? { ...d, is_on: !d.is_on } : d)
RevertFlip(devs, id) ==
  [i \in DOMAIN devs |->
     IF IdOf(devs[i]) = id
     THEN ShallowMerge(devs[i], [is_on |-> ~IsOn(devs[i])])
     ELSE devs[i]]

\* prev.map(d => d.id === id ? { ...d, position_x, position_y } : d)
PositionPreview(devs, id, x, y) ==
  [i \in DOMAIN devs |->
     IF IdOf(devs[i]) = id
     THEN ShallowMerge(devs[i], [position_x |-> x, position_y |-> y])
     ELSE devs[i]]

\* signal_type === "digital" || device_type === "switch" || device_type === "light"
\* mutant of IsDigital: every device is treated as a toggle
IsDigital_Always(d) == TRUE

IsDigital(d) ==
  \/ "signal_type" \in DOMAIN d /\ d.signal_type = "digital"
  \/ "device_type" \in DOMAIN d /\ d.device_type \in {"switch", "light"}

\* rooms.find(r => r.id === numericRoomId) || null
FindRoom(rooms, r) ==
  IF \E i \in DOMAIN rooms : rooms[i].id = r
  THEN rooms[CHOOSE i \in DOMAIN rooms :
               rooms[i].id = r /\ \A j \in 1..(i - 1) : rooms[j].id # r]
  ELSE NoRoom

\* syncRoomForm: a null room leaves the form as it is
syncRoomForm(form, roomData) ==
  IF roomData = NoRoom THEN form
  ELSE [roomName |-> roomData.name, roomSlug |-> roomData.slug,
        roomBackgroundUrl |-> roomData.background_image_url,
        backgroundFile |-> FALSE,
        backgroundPreview |-> roomData.background_image_url]

(***************************************************************************)
(* Live-channel frames.  event.data is text; JSON.parse either throws or   *)
(* yields a value.  Values that the handler inspects are tagged with their *)
(* JavaScript kind: null, object, array.                                   *)
(***************************************************************************)
JNull == [t |-> "null"]
JObj(v) == [t |-> "obj", v |-> v]
JArr(s) == [t |-> "arr", v |-> s]

BadJson == [json |-> FALSE]
Frame(value) == [json |-> TRUE, value |-> value]

\* frames the handler must ignore
IgnoredFrames(r) ==
  {BadJson,
   Frame(JNull),
   Frame(JObj([type |-> "pong"])),
   Frame(JObj([type |-> "pong", device |-> JObj([id |-> DeviceIdOfRoom(r), is_on |-> TRUE])])),
   Frame(JObj([type |-> "device_update"])),
   Frame(JObj([type |-> "device_update", device |-> JNull])),
   Frame(JObj([type |-> "devices_snapshot"])),
   Frame(JObj([type |-> "devices_snapshot", devices |-> JNull])),
   Frame(JObj([type |-> "devices_snapshot",
               devices |-> JObj([id |-> DeviceIdOfRoom(r), is_on |-> TRUE])]))}

UpdateFrames(r) ==
  {Frame(JObj([type |-> "device_update", device |-> JObj(p)])) : p \in UpdatePayloads(r)}

SnapshotFrames(r) ==
  {Frame(JObj([type |-> "devices_snapshot", devices |-> JArr(l)])) :
     l \in DeviceLists(r) \cup {DuplicateList(r)}}

Frames(r) == IgnoredFrames(r) \cup UpdateFrames(r) \cup SnapshotFrames(r)

\* the kind of a frame the handler acts on, and the list a snapshot carries
IsUpdateFrame(f) == f.json /\ f.value.t = "obj" /\ f.value.v.type = "device_update"
IsSnapshotFrame(f) == f.json /\ f.value.t = "obj" /\ f.value.v.type = "devices_snapshot"
FrameDevice(f) == f.value.v.device.v
FrameDevices(f) == f.value.v.devices.v

\* JSON.parse(event.data)
JSONparse(frame) ==
  IF frame.json THEN [threw |-> FALSE, value |-> frame.value]
  ELSE [threw |-> TRUE]

\* data.device is truthy
Truthy(obj, field) == field \in DOMAIN obj /\ obj[field].t # "null"

\* Array.isArray(data.devices)
IsArray(obj, field) == field \in DOMAIN obj /\ obj[field].t = "arr"

\* mutant of onmessageBody: a snapshot is merged record by record into the
\* store instead of replacing it
RECURSIVE UpsertAll(_, _)
UpsertAll(devs, list) ==
  IF list = <<>> THEN devs
  ELSE UpsertAll(applyDeviceUpdate(devs, Head(list)), Tail(list))

onmessageBody_MergeSnapshot(devs, frame) ==
  IF ~frame.json \/ frame.value.t = "null" THEN [devices |-> devs, threw |-> TRUE]
  ELSE LET data == frame.value.v
           type == IF "type" \in DOMAIN data THEN data.type ELSE ""
       IN [devices |->
             IF type = "device_update" /\ Truthy(data, "device")
             THEN applyDeviceUpdate(devs, data.device.v)
             ELSE IF type = "devices_snapshot" /\ IsArray(data, "devices")
             THEN UpsertAll(devs, data.devices.v)
             ELSE devs,
           threw |-> FALSE]

\* the body of the try block of socket.onmessage: the store it leaves, and
\* whether it threw
onmessageBody(devs, frame) ==
  LET parsed == JSONparse(frame)
  IN IF parsed.threw THEN [devices |-> devs, threw |-> TRUE]
     ELSE IF parsed.value.t = "null" THEN [devices |-> devs, threw |-> TRUE]
     ELSE LET data == parsed.value.v
              type == IF "type" \in DOMAIN data THEN data.type ELSE ""
              afterUpdate ==
                IF type = "device_update" /\ Truthy(data, "device")
                THEN applyDeviceUpdate(devs, data.device.v)
                ELSE devs
              afterSnapshot ==
                IF type = "devices_snapshot" /\ IsArray(data, "devices")
                THEN data.devices.v
                ELSE afterUpdate
          IN [devices |-> afterSnapshot, threw |-> FALSE]

\* mutant of onmessage: no try/catch around the body
onmessage_NoCatch(devs, frame) == onmessageBody(devs, frame)

\* socket.onmessage: try { body } catch (e) { console.error(...) }
onmessage(devs, frame) ==
  LET r == onmessageBody(devs, frame)
  IN IF r.threw THEN [devices |-> devs, threw |-> FALSE] ELSE r

(***************************************************************************)
(* Requests in flight and the WebSocket objects.                           *)
(***************************************************************************)
\* Promise.all([getRooms(), getRoomDevices(numericRoomId)]) of load, for the
\* room of the render that created this load
LoadRequest(r) == [kind |-> "load", room |-> r]

\* mutant of CommandBody: the device's fields travel with the command
CommandBody_WholeDevice(device, nextState) ==
  ShallowMerge(device, [state |-> IF nextState THEN "on" ELSE "off"])

\* the payload of the toggle command: { state: nextState ? "on" : "off" }
CommandBody(device, nextState) ==
  [state |-> IF nextState THEN "on" ELSE "off"]

\* sendDeviceCommand(device.id, {state}) with what the handler's closure
\* keeps: isOn (line 391) and the load of its render
CommandRequest(device, r) ==
  [kind |-> "cmd", dev |-> IdOf(device), isOn |-> IsOn(device),
   body |-> CommandBody(device, ~IsOn(device)), room |-> r]

Issue(bag, q) == bag (+) SetToBag({q})
Settle(bag, q) == bag (-) SetToBag({q})
Awaited(kind) == {q \in BagToSet(pending) : q.kind = kind}
CanIssue == BagCardinality(pending) < MaxPending

\* new WebSocket(wsUrl): readyState CONNECTING, bound to the room in its URL
NewSocket(r) == [room |-> r, rs |-> "connecting", err |-> FALSE, closeCalled |-> FALSE]

\* socket.close(): CONNECTING or OPEN becomes CLOSING
CloseSocket(s) ==
  [s EXCEPT !.rs = IF s.rs \in {"connecting", "open"} THEN "closing" ELSE s.rs,
            !.closeCalled = TRUE]

\* mutant of Cleanup: the effect returns no cleanup
Cleanup_Missing(socks) == socks

\* the cleanup returned by the effect: close the socket that effect created
Cleanup(socks) ==
  [i \in DOMAIN socks |-> IF i = Len(socks) THEN CloseSocket(socks[i]) ELSE socks[i]]

EmptyForm ==
  [roomName |-> "", roomSlug |-> "", roomBackgroundUrl |-> "",
   backgroundFile |-> FALSE, backgroundPreview |-> ""]

PreviewPoints == {<<20, 80>>}

(***************************************************************************)
(* Initial state: the first render of RoomPage for /rooms/1, before its    *)
(* effect has run.                                                         *)
(***************************************************************************)
UpsertIdle ==
  /\ uStart = <<>> /\ uPrev = <<>> /\ uStore = <<>> /\ uApplied = <<>>

\* the creation form and the canvas of a freshly mounted room view
CreateFormInit ==
  /\ newDeviceName = "" /\ newDeviceType = "light" /\ newDeviceLocation = ""

\* client storage after a login that returned token t and user u, an idle
\* login form, and no authentication call in flight
StoredSession(u, t) ==
  /\ authUser = u /\ authToken = t /\ issuedToken = t
  /\ mode = "login" /\ loginError = "" /\ loginLoading = FALSE
  /\ authPending = EmptyBag /\ logoutInvoked = FALSE

\* the state of the creation forms of a freshly mounted page
NoDevice == 0
LoadedDevice == 1
EmptyPageForm ==
  [newRoomName |-> "", newRoomSlug |-> "", newRoomBackground |-> "",
   newIntegrationProvider |-> "google_home", newIntegrationName |-> "",
   refreshing |-> FALSE,
   device |-> NoDevice, endpointConnectorId |-> "", endpointAddress |-> "",
   savingEndpoint |-> FALSE, savingDevice |-> FALSE]

\* the finally blocks that follow a load of the dashboard or of the device
\* settings: setRefreshing(false), and setSavingEndpoint(false) when the
\* load was awaited by handleAddEndpoint
AfterPageLoad(q, form) ==
  [form EXCEPT !.refreshing = FALSE,
               !.savingEndpoint = IF "then" \in DOMAIN q THEN FALSE ELSE @]

FormIdle == pageForm = EmptyPageForm /\ pageCalls = EmptyBag

\* a freshly mounted RoomPage shows the Devices tab; no file is being read
TabInit == activeTab = "devices" /\ readers = 0

\* RoomDevicesView (device list, canvas, creation form) is rendered on the
\* Devices tab, RoomSettingsView on the Settings tab
OnDevicesTab == activeTab = "devices"
OnSettingsTab == activeTab = "settings"

\* the application of a logged-in user showing the room view of room 1
AppOnRoom ==
  /\ StoredSession("alice", "t1")
  /\ FormIdle /\ TabInit
  /\ user = "alice"
  /\ pathname = "/rooms/1"
  /\ routed = TRUE
  /\ page = "room"
  /\ pageInst = 1
  /\ pageLoading = FALSE
  /\ pageError = ""
  /\ pageLoads = EmptyBag
  /\ sessionExpired = FALSE

\* the canvas is laid out with its inline minHeight of 260 and its 1px border
CanvasIdle ==
  /\ containerRef = [attached |-> TRUE, left |-> 10, top |-> 10,
                     width |-> 10, height |-> 260]
  /\ draggingId = NoId
  /\ dragStartRef = [x |-> 0, y |-> 0]
  /\ didMoveRef = FALSE
  /\ gestureFar = FALSE

RoomInit ==
  /\ mounted = TRUE
  /\ roomId = 1
  /\ room = NoRoom
  /\ roomForm = EmptyForm
  /\ devices = <<>>
  /\ loading = TRUE
  /\ refreshing = FALSE
  /\ error = ""
  /\ wsStatus = "idle"
  /\ socketRef = 0
  /\ sockets = <<>>
  /\ pending = EmptyBag
  /\ nav = ""
  /\ last = [op |-> "init"]

Init == RoomInit /\ UpsertIdle /\ CreateFormInit /\ CanvasIdle /\ AppOnRoom

(***************************************************************************)
(* The WebSocket effect (lines 298-358) and load (lines 244-293).          *)
(***************************************************************************)
\* the effect body for room r, run on the sockets left by the cleanup
RunEffect(r, socks) ==
  /\ error' = ""
  /\ loading' = TRUE
  /\ pending' = Issue(pending, LoadRequest(r))
  /\ wsStatus' = "connecting"
  /\ sockets' = Append(socks, NewSocket(r))
  /\ socketRef' = Len(socks) + 1

\* first run of the effect, after the mount
MountEffect ==
  /\ mounted /\ sockets = <<>>
  /\ RunEffect(roomId, sockets)
  /\ last' = [op |-> "effect", room |-> roomId]
  /\ UNCHANGED <<mounted, roomId, room, roomForm, devices, refreshing, nav>>
  /\ UNCHANGED otherVars

\* the route parameter changes: cleanup of the old effect, then the effect
SwitchRoom(r) ==
  /\ mounted /\ sockets # <<>> /\ r # roomId
  /\ Len(sockets) <= MaxSwitches /\ CanIssue
  /\ roomId' = r
  /\ RunEffect(r, Cleanup(sockets))
  /\ last' = [op |-> "effect", room |-> r]
  /\ UNCHANGED <<mounted, room, roomForm, devices, refreshing, nav>>
  /\ UNCHANGED otherVars

\* leaving the room view: the cleanup runs, the instance is gone
Unmounted(target) ==
  /\ mounted' = FALSE
  /\ nav' = target
  /\ sockets' = Cleanup(sockets)
  /\ socketRef' = 0

handleBackClick ==
  /\ mounted /\ sockets # <<>>
  /\ Unmounted("/")
  /\ last' = [op |-> "other"]
  /\ UNCHANGED <<roomId, room, roomForm, devices, loading, refreshing, error,
                 wsStatus, pending>>
  /\ UNCHANGED otherVars

handleRefreshClick ==
  /\ mounted /\ sockets # <<>> /\ ~loading /\ ~refreshing /\ CanIssue
  /\ error' = ""
  /\ refreshing' = TRUE
  /\ pending' = Issue(pending, LoadRequest(roomId))
  /\ last' = [op |-> "other"]
  /\ UNCHANGED <<mounted, roomId, room, roomForm, devices, loading, wsStatus,
                 socketRef, sockets, nav>>
  /\ UNCHANGED otherVars

\* mutant of LoadSucceeded: without a room the device list is not stored
LoadSucceeded_NeedsRoom(q, rooms, devicesData) ==
  /\ mounted /\ q \in Awaited("load")
  /\ LET foundRoom == FindRoom(rooms, q.room)
     IN /\ error' = IF foundRoom = NoRoom THEN "Room not found." ELSE error
        /\ room' = foundRoom
        /\ roomForm' = syncRoomForm(roomForm, foundRoom)
        /\ devices' = IF foundRoom = NoRoom THEN devices ELSE devicesData
  /\ loading' = FALSE
  /\ refreshing' = FALSE
  /\ pending' = Settle(pending, q)
  /\ last' = [op |-> "load_ok", req |-> q, dup |-> ~UniqueIds(devicesData),
              roomIds |-> {rooms[i].id : i \in DOMAIN rooms},
              list |-> devicesData]
  /\ UNCHANGED <<mounted, roomId, wsStatus, socketRef, sockets, nav>>
  /\ UNCHANGED otherVars

\* both requests of the load answered: lines 261-273, then the finally block
LoadSucceeded(q, rooms, devicesData) ==
  /\ mounted /\ q \in Awaited("load")
  /\ LET foundRoom == FindRoom(rooms, q.room)
     IN /\ error' = IF foundRoom = NoRoom THEN "Room not found." ELSE error
        /\ room' = foundRoom
        /\ roomForm' = syncRoomForm(roomForm, foundRoom)
  /\ devices' = devicesData
  /\ loading' = FALSE
  /\ refreshing' = FALSE
  /\ pending' = Settle(pending, q)
  /\ last' = [op |-> "load_ok", req |-> q, dup |-> ~UniqueIds(devicesData),
              roomIds |-> {rooms[i].id : i \in DOMAIN rooms},
              list |-> devicesData]
  /\ UNCHANGED <<mounted, roomId, wsStatus, socketRef, sockets, nav>>
  /\ UNCHANGED otherVars

\* one of the two requests rejected: lines 274-286, then the finally block
\* mutant of LoadFailed: a failed load empties the device store
LoadFailed_ClearsDevices(q, e) ==
  /\ mounted /\ q \in Awaited("load")
  /\ LET err == ResponseError(e)
     IN IF ErrorStatus(err) \in {401, 403}
        THEN /\ Unmounted("/login")
             /\ UNCHANGED <<error, wsStatus>>
        ELSE /\ error' = ErrorDetail(err, "Failed to load room data.")
             /\ UNCHANGED <<mounted, nav, sockets, socketRef, wsStatus>>
  /\ loading' = FALSE
  /\ refreshing' = FALSE
  /\ pending' = Settle(pending, q)
  /\ last' = Rejected("load_failed", q, e)
  /\ devices' = <<>>
  /\ UNCHANGED <<roomId, room, roomForm>>
  /\ UNCHANGED otherVars

\* mutant of LoadFailed: the flags are reset on success only, as if the load
\* had no finally block
LoadFailed_NoFinally(q, e) ==
  /\ mounted /\ q \in Awaited("load")
  /\ LET err == ResponseError(e)
     IN IF ErrorStatus(err) \in {401, 403}
        THEN /\ Unmounted("/login")
             /\ UNCHANGED <<error, wsStatus>>
        ELSE /\ error' = ErrorDetail(err, "Failed to load room data.")
             /\ UNCHANGED <<mounted, nav, sockets, socketRef, wsStatus>>
  /\ pending' = Settle(pending, q)
  /\ last' = Rejected("load_failed", q, e)
  /\ UNCHANGED <<roomId, room, roomForm, devices, loading, refreshing>>
  /\ UNCHANGED otherVars

LoadFailed(q, e) ==
  /\ mounted /\ q \in Awaited("load")
  /\ LET err == ResponseError(e)
     IN IF ErrorStatus(err) \in {401, 403}
        THEN /\ Unmounted("/login")
             /\ UNCHANGED <<error, wsStatus>>
        ELSE /\ error' = ErrorDetail(err, "Failed to load room data.")
             /\ UNCHANGED <<mounted, nav, sockets, socketRef, wsStatus>>
  /\ loading' = FALSE
  /\ refreshing' = FALSE
  /\ pending' = Settle(pending, q)
  /\ last' = Rejected("load_failed", q, e)
  /\ UNCHANGED <<roomId, room, roomForm, devices>>
  /\ UNCHANGED otherVars

(***************************************************************************)
(* handleToggleDevice (lines 376-422).                                     *)
(***************************************************************************)
\* click on the toggle of the i-th rendered device
handleToggleDevice(i) ==
  /\ mounted /\ OnDevicesTab /\ sockets # <<>> /\ i \in DOMAIN devices
  /\ LET device == devices[i]
         req == CommandRequest(device, roomId)
     IN IF ~IsDigital(device)
        THEN /\ last' = [op |-> "toggle_ignored", dev |-> IdOf(device),
                         idx |-> i, errorBefore |-> error]
             /\ UNCHANGED <<devices, pending>>
        ELSE /\ CanIssue
             /\ devices' = OptimisticFlip(devices, IdOf(device), ~IsOn(device))
             /\ pending' = Issue(pending, req)
             /\ last' = [op |-> "toggle", req |-> req, idx |-> i]
  /\ error' = ""
  /\ UNCHANGED <<mounted, roomId, room, roomForm, loading, refreshing, wsStatus,
                 socketRef, sockets, nav>>
  /\ UNCHANGED otherVars

\* mutant of CommandSucceeded: the optimistic value is trusted, no reload
CommandSucceeded_NoReload(c) ==
  /\ mounted /\ c \in Awaited("cmd")
  /\ pending' = Settle(pending, c)
  /\ last' = [op |-> "cmd_ok", req |-> c]
  /\ UNCHANGED <<mounted, roomId, room, roomForm, devices, loading, refreshing,
                 error, wsStatus, socketRef, sockets, nav>>
  /\ UNCHANGED otherVars

\* the command resolved: await load({ isRefresh: true }) of the handler's render
CommandSucceeded(c) ==
  /\ mounted /\ c \in Awaited("cmd")
  /\ error' = ""
  /\ refreshing' = TRUE
  /\ pending' = Issue(Settle(pending, c), LoadRequest(c.room))
  /\ last' = [op |-> "cmd_ok", req |-> c]
  /\ UNCHANGED <<mounted, roomId, room, roomForm, devices, loading, wsStatus,
                 socketRef, sockets, nav>>
  /\ UNCHANGED otherVars

\* the command rejected: the catch block, lines 407-421
\* mutant of CommandFailed: the revert writes the is_on the toggle captured
CommandFailed_RestoreCaptured(c, e) ==
  /\ mounted /\ c \in Awaited("cmd")
  /\ error' = ErrorDetail(ResponseError(e), "Could not toggle device.")
  /\ devices' = OptimisticFlip(devices, c.dev, c.isOn)
  /\ pending' = Settle(pending, c)
  /\ last' = Rejected("cmd_failed", c, e)
  /\ UNCHANGED <<mounted, roomId, room, roomForm, loading, refreshing, wsStatus,
                 socketRef, sockets, nav>>
  /\ UNCHANGED otherVars

CommandFailed(c, e) ==
  /\ mounted /\ c \in Awaited("cmd")
  /\ error' = ErrorDetail(ResponseError(e), "Could not toggle device.")
  /\ devices' = RevertFlip(devices, c.dev)
  /\ pending' = Settle(pending, c)
  /\ last' = Rejected("cmd_failed", c, e)
  /\ UNCHANGED <<mounted, roomId, room, roomForm, loading, refreshing, wsStatus,
                 socketRef, sockets, nav>>
  /\ UNCHANGED otherVars

\* handleDevicePositionPreview for the i-th rendered marker (lines 462-470)
handleDevicePositionPreview(i, x, y) ==
  /\ mounted /\ OnDevicesTab /\ sockets # <<>> /\ i \in DOMAIN devices
  /\ devices' = PositionPreview(devices, IdOf(devices[i]), x, y)
  /\ last' = [op |-> "other"]
  /\ UNCHANGED <<mounted, roomId, room, roomForm, loading, refreshing, error,
                 wsStatus, socketRef, sockets, pending, nav>>
  /\ UNCHANGED otherVars

\* a request of the unmounted instance settles: its state setters do nothing,
\* a succeeded command or creation still issues its reload, a 401/403 load
\* still navigates
SettledAfterUnmount(q) ==
  /\ ~mounted /\ q \in BagToSet(pending)
  /\ \/ /\ q.kind \in {"cmd", "create"}
        /\ pending' = Issue(Settle(pending, q), LoadRequest(q.room))
        /\ nav' = nav
     \/ /\ pending' = Settle(pending, q)
        /\ nav' \in IF q.kind = "load" THEN {nav, "/login"} ELSE {nav}
  /\ last' = [op |-> "other"]
  /\ UNCHANGED <<mounted, roomId, room, roomForm, devices, loading, refreshing,
                 error, wsStatus, socketRef, sockets>>
  /\ UNCHANGED otherVars

(***************************************************************************)
(* The socket's handlers (lines 315-346).  The browser fires open only on  *)
(* a CONNECTING socket, message only on an OPEN one, error when the        *)
(* connection fails, and close once, last.  The handlers stay attached to  *)
(* a socket after the cleanup closed it.                                   *)
(***************************************************************************)
SetStatus(v) == wsStatus' = IF mounted THEN v ELSE wsStatus

onopen(s) ==
  /\ s \in DOMAIN sockets /\ sockets[s].rs = "connecting"
  /\ sockets' = [sockets EXCEPT ![s].rs = "open"]
  /\ SetStatus("online")
  /\ last' = [op |-> "open", sock |-> s]
  /\ UNCHANGED <<mounted, roomId, room, roomForm, devices, loading, refreshing,
                 error, socketRef, pending, nav>>
  /\ UNCHANGED otherVars

socketOnmessage(s, frame) ==
  /\ mounted /\ s \in DOMAIN sockets /\ sockets[s].rs = "open"
  /\ LET r == onmessage(devices, frame)
     IN /\ devices' = r.devices
        /\ last' = [op |-> "message", sock |-> s, threw |-> r.threw,
                     frame |-> IF frame \in IgnoredFrames(sockets[s].room)
                               THEN BadJson ELSE frame,
                     ignored |-> frame \in IgnoredFrames(sockets[s].room),
                     dup |-> /\ frame \notin IgnoredFrames(sockets[s].room)
                             /\ IsSnapshotFrame(frame)
                             /\ ~UniqueIds(FrameDevices(frame))]
  /\ UNCHANGED <<mounted, roomId, room, roomForm, loading, refreshing, error,
                 wsStatus, socketRef, sockets, pending, nav>>
  /\ UNCHANGED otherVars

onerror(s) ==
  /\ s \in DOMAIN sockets /\ sockets[s].rs \in {"connecting", "open", "closing"}
  /\ ~sockets[s].err
  /\ sockets' = [sockets EXCEPT ![s].rs = "closing", ![s].err = TRUE]
  /\ SetStatus("offline")
  /\ last' = [op |-> "error", sock |-> s]
  /\ UNCHANGED <<mounted, roomId, room, roomForm, devices, loading, refreshing,
                 error, socketRef, pending, nav>>
  /\ UNCHANGED otherVars

onclose(s) ==
  /\ s \in DOMAIN sockets /\ sockets[s].rs # "closed"
  /\ sockets' = [sockets EXCEPT ![s].rs = "closed", ![s].err = FALSE]
  /\ SetStatus("offline")
  /\ socketRef' = 0
  /\ last' = [op |-> "close", sock |-> s]
  /\ UNCHANGED <<mounted, roomId, room, roomForm, devices, loading, refreshing,
                 error, pending, nav>>
  /\ UNCHANGED otherVars

(***************************************************************************)
(* Spec: the room view from its mount to its unmount while the route stays *)
(* on one room.  Every REST outcome and every frame of the channel is an   *)
(* input.                                                                  *)
(***************************************************************************)
Next ==
  \/ MountEffect
  \/ handleRefreshClick
  \/ \E q \in Awaited("load"), rooms \in RoomLists :
       \E l \in DeviceLists(q.room) : LoadSucceeded(q, rooms, l)
  \/ \E q \in Awaited("load"), e \in AxiosErrors : LoadFailed(q, e)
  \/ \E i \in DOMAIN devices : handleToggleDevice(i)
  \/ \E c \in Awaited("cmd") : CommandSucceeded(c)
  \/ \E c \in Awaited("cmd"), e \in AxiosErrors : CommandFailed(c, e)
  \/ \E i \in DOMAIN devices, p \in PreviewPoints :
       handleDevicePositionPreview(i, p[1], p[2])
  \/ \E q \in BagToSet(pending) : SettledAfterUnmount(q)
  \/ \E s \in DOMAIN sockets : onopen(s)
  \/ \E s \in DOMAIN sockets :
       \E f \in Frames(sockets[s].room) : socketOnmessage(s, f)
  \/ \E s \in DOMAIN sockets : onerror(s)
  \/ \E s \in DOMAIN sockets : onclose(s)
  \/ handleBackClick

Spec == Init /\ [][Next]_vars

(***************************************************************************)
(* SpecNav: the room view under navigation: room switches, leaving the     *)
(* view, and the sockets' error and close events, with one device list,    *)
(* one frame of each kind and two failures as inputs.                      *)
(***************************************************************************)
NavLists(r) == {<<ServerDevice(r, FALSE)>>}
NavErrors == {[hasResponse |-> FALSE], [hasResponse |-> TRUE, status |-> 401, data |-> <<>>]}
NavFrames(r) ==
  {BadJson,
   Frame(JObj([type |-> "device_update",
               device |-> JObj([id |-> DeviceIdOfRoom(r), is_on |-> TRUE])])),
   Frame(JObj([type |-> "devices_snapshot", devices |-> JArr(<<ServerDevice(r, TRUE)>>)]))}

NavNext ==
  \/ MountEffect
  \/ \E r \in Rooms : SwitchRoom(r)
  \/ handleBackClick
  \/ handleRefreshClick
  \/ \E q \in Awaited("load") :
       \E l \in NavLists(q.room) : LoadSucceeded(q, <<RoomRecord(1), RoomRecord(2)>>, l)
  \/ \E q \in Awaited("load"), e \in NavErrors : LoadFailed(q, e)
  \/ \E i \in DOMAIN devices : handleToggleDevice(i)
  \/ \E c \in Awaited("cmd") : CommandSucceeded(c)
  \/ \E c \in Awaited("cmd"), e \in NavErrors : CommandFailed(c, e)
  \/ \E q \in BagToSet(pending) : SettledAfterUnmount(q)
  \/ \E s \in DOMAIN sockets : onopen(s)
  \/ \E s \in DOMAIN sockets :
       \E f \in NavFrames(sockets[s].room) : socketOnmessage(s, f)
  \/ \E s \in DOMAIN sockets : onerror(s)
  \/ \E s \in DOMAIN sockets : onclose(s)

SpecNav == Init /\ [][NavNext]_vars

(***************************************************************************)
(* SpecUpsert: applyDeviceUpdate as a function.  Init draws a starting     *)
(* store; each step applies one device_update payload to the store.        *)
(***************************************************************************)
UStartRecords ==
  {[id |-> 1, name |-> "lamp", is_on |-> FALSE],
   [id |-> 1, is_on |-> TRUE, position_x |-> 20],
   [id |-> 2, name |-> "fan"],
   [name |-> "ghost"]}

UStores ==
  {<<>>} \cup {<<a>> : a \in UStartRecords}
         \cup {<<a, b>> : a \in UStartRecords, b \in UStartRecords}

UPayloads ==
  {[id |-> k] : k \in {1, 2}}
    \cup {[id |-> k, is_on |-> b] : k \in {1, 2}, b \in BOOLEAN}
    \cup {[id |-> k, name |-> "renamed"] : k \in {1, 2}}
    \cup {[id |-> 1, is_on |-> TRUE, name |-> "lamp"], [is_on |-> TRUE]}

UpsertInit ==
  /\ RoomInit /\ CreateFormInit /\ CanvasIdle /\ AppOnRoom
  /\ uStart \in UStores
  /\ uPrev = uStart
  /\ uStore = uStart
  /\ uApplied = <<>>

\* setDevices((prev) => applyDeviceUpdate(prev, data.device))
Upsert(p) ==
  /\ Len(uApplied) < MaxUpserts
  /\ uStart' = uStart
  /\ uPrev' = uStore
  /\ uStore' = applyDeviceUpdate(uStore, p)
  /\ uApplied' = Append(uApplied, p)
  /\ UNCHANGED <<roomVars, createVars, canvasVars, appVars, authVars, formVars, tabVars>>

UpsertNext == \E p \in UPayloads : Upsert(p)

SpecUpsert == UpsertInit /\ [][UpsertNext]_vars

(***************************************************************************)
(* RoomCanvas (lines 883-953).  Its arithmetic is JavaScript's: a number   *)
(* is a ratio n/d of integers (d > 0), an infinity, or NaN.                *)
(***************************************************************************)
Num(n, d) == IF n % d = 0 THEN [t |-> "num", n |-> n \div d, d |-> 1]
             ELSE [t |-> "num", n |-> n, d |-> d]
NaN == [t |-> "nan"]
PosInf == [t |-> "inf"]
NegInf == [t |-> "-inf"]

\* a / w for integers a and w >= 0: division by zero gives an infinity, 0/0 NaN
Divide(a, w) ==
  IF w # 0 THEN Num(a, w)
  ELSE IF a > 0 THEN PosInf ELSE IF a < 0 THEN NegInf ELSE NaN

\* v * 100
Times100(v) == IF v.t = "num" THEN Num(v.n * 100, v.d) ELSE v

\* Math.max(0, v): NaN if v is NaN
MathMax0(v) ==
  IF v.t = "nan" THEN NaN
  ELSE IF v.t = "inf" THEN PosInf
  ELSE IF v.t = "-inf" THEN Num(0, 1)
  ELSE IF v.n < 0 THEN Num(0, 1) ELSE v

\* Math.min(100, v): NaN if v is NaN
MathMin100(v) ==
  IF v.t = "nan" THEN NaN
  ELSE IF v.t = "inf" THEN Num(100, 1)
  ELSE IF v.t = "-inf" THEN NegInf
  ELSE IF v.n > 100 * v.d THEN Num(100, 1) ELSE v

\* containerRef.current: null, or the element with its bounding rectangle
NoContainer == [attached |-> FALSE]
Container(l, t, w, h) ==
  [attached |-> TRUE, left |-> l, top |-> t, width |-> w, height |-> h]

\* mutant of getPercentFromPointer: the percentages are not clamped
getPercentFromPointer_Unclamped(container, event) ==
  IF ~container.attached THEN [x |-> Num(0, 1), y |-> Num(0, 1)]
  ELSE [x |-> Times100(Divide(event.clientX - container.left, container.width)),
        y |-> Times100(Divide(event.clientY - container.top, container.height))]

getPercentFromPointer(container, event) ==
  IF ~container.attached THEN [x |-> Num(0, 1), y |-> Num(0, 1)]
  ELSE LET x == Times100(Divide(event.clientX - container.left, container.width))
           y == Times100(Divide(event.clientY - container.top, container.height))
       IN [x |-> MathMin100(MathMax0(x)), y |-> MathMin100(MathMax0(y))]

\* mutant of Moved: the threshold is 2px
Moved_Tight(event, start) ==
  LET dx == event.clientX - start.x
      dy == event.clientY - start.y
  IN dx * dx + dy * dy > 4

\* distanceSq > 9 for the displacement of the event from the drag start
Moved(event, start) ==
  LET dx == event.clientX - start.x
      dy == event.clientY - start.y
      distanceSq == dx * dx + dy * dy
  IN distanceSq > 9

\* navigate(`/devices/${deviceId}/settings`)
SettingsPath(deviceId) ==
  CASE deviceId = 1 -> "/devices/1/settings"
    [] deviceId = 2 -> "/devices/2/settings"
    [] deviceId = 3 -> "/devices/3/settings"
    [] OTHER -> "/devices/4/settings"

\* updateDevice(deviceId, { position_x, position_y }) of the position commit
CommitRequest(deviceId, x, y) ==
  [kind |-> "commit", dev |-> deviceId,
   body |-> [position_x |-> x, position_y |-> y]]

\* history of a canvas handler: its pointer event and what it handed to its
\* three callbacks, in call order
Emitted(op, e, previews, commits, navs) ==
  [op |-> op, event |-> e, previews |-> previews, commits |-> commits,
   navs |-> navs]

\* history of an event the canvas ignores
Ignored == [op |-> "pointer_idle", previews |-> <<>>, commits |-> <<>>, navs |-> <<>>]

\* the event is more than 3px away from the point (x, y)
BeyondThreePx(e, start) ==
  (e.clientX - start.x) * (e.clientX - start.x)
    + (e.clientY - start.y) * (e.clientY - start.y) > 3 * 3

\* pointer-down on the marker of the i-th device
handlePointerDown(i, e) ==
  /\ mounted /\ OnDevicesTab /\ sockets # <<>> /\ i \in DOMAIN devices
  /\ LET deviceId == IdOf(devices[i])
         p == getPercentFromPointer(containerRef, e)
     IN /\ draggingId' = deviceId
        /\ dragStartRef' = [x |-> e.clientX, y |-> e.clientY]
        /\ didMoveRef' = FALSE
        /\ gestureFar' = FALSE
        /\ devices' = PositionPreview(devices, deviceId, p.x, p.y)
        /\ last' = Emitted("pointerdown", e,
                           <<[dev |-> deviceId, x |-> p.x, y |-> p.y]>>, <<>>, <<>>)
  /\ UNCHANGED <<mounted, roomId, room, roomForm, loading, refreshing, error,
                 wsStatus, socketRef, sockets, pending, nav, containerRef>>
  /\ UNCHANGED <<upsertVars, createVars, appVars, authVars, formVars, tabVars>>

\* mutant of handlePointerMove: the flag follows the current displacement
handlePointerMove_LastOnly(e) ==
  /\ mounted /\ OnDevicesTab /\ sockets # <<>>
  /\ IF draggingId = NoId
     THEN /\ last' = Ignored
          /\ UNCHANGED <<devices, didMoveRef, gestureFar>>
     ELSE LET p == getPercentFromPointer(containerRef, e)
          IN /\ didMoveRef' = Moved(e, dragStartRef)
             /\ gestureFar' = (gestureFar \/ BeyondThreePx(e, dragStartRef))
             /\ devices' = PositionPreview(devices, draggingId, p.x, p.y)
             /\ last' = Emitted("pointermove", e,
                                <<[dev |-> draggingId, x |-> p.x, y |-> p.y]>>,
                                <<>>, <<>>)
  /\ UNCHANGED <<mounted, roomId, room, roomForm, loading, refreshing, error,
                 wsStatus, socketRef, sockets, pending, nav, containerRef,
                 draggingId, dragStartRef>>
  /\ UNCHANGED <<upsertVars, createVars, appVars, authVars, formVars, tabVars>>

\* pointer-move over the canvas
handlePointerMove(e) ==
  /\ mounted /\ OnDevicesTab /\ sockets # <<>>
  /\ IF draggingId = NoId
     THEN /\ last' = Ignored
          /\ UNCHANGED <<devices, didMoveRef, gestureFar>>
     ELSE LET p == getPercentFromPointer(containerRef, e)
          IN /\ didMoveRef' = (didMoveRef \/ Moved(e, dragStartRef))
             /\ gestureFar' = (gestureFar \/ BeyondThreePx(e, dragStartRef))
             /\ devices' = PositionPreview(devices, draggingId, p.x, p.y)
             /\ last' = Emitted("pointermove", e,
                                <<[dev |-> draggingId, x |-> p.x, y |-> p.y]>>,
                                <<>>, <<>>)
  /\ UNCHANGED <<mounted, roomId, room, roomForm, loading, refreshing, error,
                 wsStatus, socketRef, sockets, pending, nav, containerRef,
                 draggingId, dragStartRef>>
  /\ UNCHANGED <<upsertVars, createVars, appVars, authVars, formVars, tabVars>>

\* mutant of finishDrag: the release commits the position of the pointer-down
finishDrag_CommitsStart(e) ==
  /\ mounted /\ OnDevicesTab /\ sockets # <<>> /\ draggingId # NoId /\ CanIssue
  /\ LET finalId == draggingId
         p == getPercentFromPointer(containerRef, e)
         q == getPercentFromPointer(containerRef,
                [clientX |-> dragStartRef.x, clientY |-> dragStartRef.y])
     IN /\ draggingId' = NoId
        /\ gestureFar' = (gestureFar \/ BeyondThreePx(e, dragStartRef))
        /\ devices' = PositionPreview(devices, finalId, p.x, p.y)
        /\ pending' = Issue(pending, CommitRequest(finalId, q.x, q.y))
        /\ last' = Emitted("release", e,
                           <<[dev |-> finalId, x |-> p.x, y |-> p.y]>>,
                           <<[dev |-> finalId, x |-> q.x, y |-> q.y]>>,
                           IF didMoveRef THEN <<>> ELSE <<finalId>>)
        /\ IF didMoveRef
           THEN UNCHANGED <<mounted, nav, sockets, socketRef>>
           ELSE /\ mounted' = FALSE
                /\ nav' = SettingsPath(finalId)
                /\ sockets' = Cleanup(sockets)
                /\ socketRef' = 0
  /\ UNCHANGED <<roomId, room, roomForm, loading, refreshing, error, wsStatus,
                 containerRef, dragStartRef, didMoveRef>>
  /\ UNCHANGED <<upsertVars, createVars, appVars, authVars, formVars, tabVars>>

\* pointer-up or pointer-leave on the canvas: last preview, commit, and the
\* settings navigation of a click, which unmounts the room view
finishDrag(e) ==
  /\ mounted /\ OnDevicesTab /\ sockets # <<>>
  /\ IF draggingId = NoId
     THEN /\ last' = Ignored
          /\ UNCHANGED <<devices, pending, mounted, nav, sockets, socketRef,
                         draggingId, gestureFar>>
     ELSE LET finalId == draggingId
              p == getPercentFromPointer(containerRef, e)
          IN /\ CanIssue
             /\ draggingId' = NoId
             /\ gestureFar' = (gestureFar \/ BeyondThreePx(e, dragStartRef))
             /\ devices' = PositionPreview(devices, finalId, p.x, p.y)
             /\ pending' = Issue(pending, CommitRequest(finalId, p.x, p.y))
             /\ last' = Emitted("release", e,
                                <<[dev |-> finalId, x |-> p.x, y |-> p.y]>>,
                                <<[dev |-> finalId, x |-> p.x, y |-> p.y]>>,
                                IF didMoveRef THEN <<>> ELSE <<finalId>>)
             /\ IF didMoveRef
                THEN UNCHANGED <<mounted, nav, sockets, socketRef>>
                ELSE Unmounted(SettingsPath(finalId))
  /\ UNCHANGED <<roomId, room, roomForm, loading, refreshing, error, wsStatus,
                 containerRef, dragStartRef, didMoveRef>>
  /\ UNCHANGED <<upsertVars, createVars, appVars, authVars, formVars, tabVars>>

\* the position commit resolved: handleDevicePositionCommit returns
PositionCommitSucceeded(q) ==
  /\ mounted /\ q \in Awaited("commit")
  /\ pending' = Settle(pending, q)
  /\ last' = [op |-> "commit_ok", req |-> q]
  /\ UNCHANGED <<mounted, roomId, room, roomForm, devices, loading, refreshing,
                 error, wsStatus, socketRef, sockets, nav>>
  /\ UNCHANGED otherVars

\* mutant of PositionCommitFailed: the catch block reloads the room
PositionCommitFailed_Reload(q, e) ==
  /\ mounted /\ q \in Awaited("commit")
  /\ error' = ""
  /\ refreshing' = TRUE
  /\ pending' = Issue(Settle(pending, q), LoadRequest(roomId))
  /\ last' = Rejected("commit_failed", q, e)
  /\ UNCHANGED <<mounted, roomId, room, roomForm, devices, loading,
                 wsStatus, socketRef, sockets, nav>>
  /\ UNCHANGED otherVars

\* the position commit rejected: the catch block (lines 479-483) logs it
PositionCommitFailed(q, e) ==
  /\ mounted /\ q \in Awaited("commit")
  /\ pending' = Settle(pending, q)
  /\ last' = Rejected("commit_failed", q, e)
  /\ UNCHANGED <<mounted, roomId, room, roomForm, devices, loading, refreshing,
                 error, wsStatus, socketRef, sockets, nav>>
  /\ UNCHANGED otherVars

(***************************************************************************)
(* SpecCanvas: drag gestures on the canvas of a loaded room whose channel  *)
(* is open.  Each pointer event carries its client coordinates; the        *)
(* bounding rectangle is fixed by the layout.                              *)
(***************************************************************************)
\* the room view of room 1 after its load and the open of its channel
LoadedRoom(devs) ==
  /\ mounted = TRUE
  /\ roomId = 1
  /\ room = RoomRecord(1)
  /\ roomForm = syncRoomForm(EmptyForm, RoomRecord(1))
  /\ devices = devs
  /\ loading = FALSE
  /\ refreshing = FALSE
  /\ error = ""
  /\ wsStatus = "online"
  /\ socketRef = 1
  /\ sockets = <<[NewSocket(1) EXCEPT !.rs = "open"]>>
  /\ pending = EmptyBag
  /\ nav = ""
  /\ last = [op |-> "init"]

\* pointer positions: on the corner (10, 10), 3px to its right, and at
\* (5, 300), which is left of and below the narrow canvas and inside the
\* wide one
PointerEvents ==
  {[clientX |-> 10, clientY |-> 10], [clientX |-> 13, clientY |-> 10],
   [clientX |-> 5, clientY |-> 300]}

\* the rectangle getBoundingClientRect() returns for the canvas div.  The
\* code takes whatever rectangle it is given: the only guard is on
\* containerRef.current being null.  A browser that lays the div out with
\* its inline minHeight of 260 and its 1px border returns a positive one
\* (a narrow canvas at (10, 10), 10 wide and 260 high, and a wide one at
\* (0, 0), 300 wide and 400 high); a document without layout returns one
\* without size, or without width.
Containers ==
  {Container(10, 10, 10, 260), Container(0, 0, 300, 400),
   Container(10, 10, 0, 0), Container(0, 0, 0, 400)}

CanvasErrors ==
  {[hasResponse |-> FALSE], [hasResponse |-> TRUE, status |-> 500, data |-> <<>>]}

\* a click on a tab.  Leaving the Devices tab unmounts RoomCanvas, so its
\* refs and its drag state are the initial ones when it is mounted again.
\* RoomPage.js refers to RoomSettingsView without defining or importing it:
\* where the build supplies the component the Settings tab is rendered;
\* where it does not, the render throws a ReferenceError, React unmounts the
\* tree and the effect cleanup closes the socket, with no navigation.
setActiveTab(tab) ==
  /\ mounted /\ sockets # <<>> /\ tab # activeTab
  /\ \/ /\ activeTab' = tab
        /\ last' = [op |-> "tab", tab |-> tab]
        /\ UNCHANGED <<mounted, socketRef, sockets>>
     \/ /\ tab = "settings"
        /\ mounted' = FALSE
        /\ sockets' = Cleanup(sockets)
        /\ socketRef' = 0
        /\ last' = [op |-> "tab_threw"]
        /\ UNCHANGED activeTab
  /\ draggingId' = NoId
  /\ dragStartRef' = [x |-> 0, y |-> 0]
  /\ didMoveRef' = FALSE
  /\ gestureFar' = FALSE
  /\ UNCHANGED <<roomId, room, roomForm, devices, loading, refreshing, error,
                 wsStatus, pending, nav, containerRef, readers>>
  /\ UNCHANGED <<upsertVars, createVars, appVars, authVars, formVars>>

Tabs == {"devices", "settings"}
CanvasInit ==
  /\ LoadedRoom(<<ServerDevice(1, FALSE), ServerSensor(1)>>)
  /\ UpsertIdle /\ CreateFormInit /\ AppOnRoom
  /\ containerRef \in Containers
  /\ draggingId = NoId
  /\ dragStartRef = [x |-> 0, y |-> 0]
  /\ didMoveRef = FALSE
  /\ gestureFar = FALSE

CanvasNext ==
  \/ \E t \in Tabs : setActiveTab(t)
  \/ \E i \in DOMAIN devices, e \in PointerEvents : handlePointerDown(i, e)
  \/ \E e \in PointerEvents : handlePointerMove(e)
  \/ \E e \in PointerEvents : finishDrag(e)
  \/ \E q \in Awaited("commit") : PositionCommitSucceeded(q)
  \/ \E q \in Awaited("commit"), e \in CanvasErrors : PositionCommitFailed(q, e)
  \/ \E q \in BagToSet(pending) : SettledAfterUnmount(q)

SpecCanvas == CanvasInit /\ [][CanvasNext]_vars

(***************************************************************************)
(* Device creation (lines 424-459) and room settings (lines 508-543).      *)
(***************************************************************************)
\* the options of the type select
DeviceTypes == {"light", "switch", "sensor", "thermostat", "camera", "other"}

\* mutant of CreateBody: every device is created as a digital actuator
CreateBody_AlwaysActuator(r, name, deviceType, location) ==
  [room |-> r, name |-> name, device_type |-> deviceType,
   device_kind |-> "actuator", signal_type |-> "digital",
   location |-> location, is_on |-> FALSE]

\* the object handed to createDevice (lines 432-445)
CreateBody(r, name, deviceType, location) ==
  LET isSensor == deviceType = "sensor"
      deviceKind == IF isSensor THEN "sensor" ELSE "actuator"
      signalType == IF isSensor THEN "analog" ELSE "digital"
  IN [room |-> r, name |-> name, device_type |-> deviceType,
      device_kind |-> deviceKind, signal_type |-> signalType,
      location |-> location, is_on |-> FALSE]

\* createDevice(body), with the room of the render whose load the handler calls
CreateRequest(r, name, deviceType, location) ==
  [kind |-> "create", room |-> r, body |-> CreateBody(r, name, deviceType, location)]

\* onChange of the name input, the type select and the location input
setNewDeviceName(v) ==
  /\ mounted /\ OnDevicesTab /\ ~loading /\ v # newDeviceName
  /\ newDeviceName' = v
  /\ last' = [op |-> "other"]
  /\ UNCHANGED <<mounted, roomId, room, roomForm, devices, loading,
                 refreshing, error, wsStatus, socketRef, sockets, pending, nav, newDeviceType, newDeviceLocation>>
  /\ UNCHANGED <<upsertVars, canvasVars, appVars, authVars, formVars, tabVars>>

setNewDeviceType(v) ==
  /\ mounted /\ OnDevicesTab /\ ~loading /\ v # newDeviceType
  /\ newDeviceType' = v
  /\ last' = [op |-> "other"]
  /\ UNCHANGED <<mounted, roomId, room, roomForm, devices, loading,
                 refreshing, error, wsStatus, socketRef, sockets, pending, nav, newDeviceName, newDeviceLocation>>
  /\ UNCHANGED <<upsertVars, canvasVars, appVars, authVars, formVars, tabVars>>

setNewDeviceLocation(v) ==
  /\ mounted /\ OnDevicesTab /\ ~loading /\ v # newDeviceLocation
  /\ newDeviceLocation' = v
  /\ last' = [op |-> "other"]
  /\ UNCHANGED <<mounted, roomId, room, roomForm, devices, loading,
                 refreshing, error, wsStatus, socketRef, sockets, pending, nav, newDeviceName, newDeviceType>>
  /\ UNCHANGED <<upsertVars, canvasVars, appVars, authVars, formVars, tabVars>>

\* submit of the creation form: nothing without a name
handleCreateDevice ==
  /\ mounted /\ OnDevicesTab /\ ~loading
  /\ IF newDeviceName = ""
     THEN /\ last' = [op |-> "create_ignored"]
          /\ UNCHANGED <<error, pending>>
     ELSE LET q == CreateRequest(roomId, newDeviceName, newDeviceType,
                                 newDeviceLocation)
          IN /\ CanIssue
             /\ error' = ""
             /\ pending' = Issue(pending, q)
             /\ last' = [op |-> "create", req |-> q]
  /\ UNCHANGED <<mounted, roomId, room, roomForm, devices, loading, refreshing,
                 wsStatus, socketRef, sockets, nav>>
  /\ UNCHANGED otherVars

\* mutant of CreateSucceeded: the form is reset, the room is not reloaded
CreateSucceeded_NoReload(q) ==
  /\ mounted /\ q \in Awaited("create")
  /\ newDeviceName' = ""
  /\ newDeviceType' = "light"
  /\ newDeviceLocation' = ""
  /\ pending' = Settle(pending, q)
  /\ last' = [op |-> "create_ok", req |-> q]
  /\ UNCHANGED <<mounted, roomId, room, roomForm, devices, loading, refreshing,
                 error, wsStatus, socketRef, sockets, nav>>
  /\ UNCHANGED <<upsertVars, canvasVars, appVars, authVars, formVars, tabVars>>

\* the creation resolved: reset the form, then await load({ isRefresh: true })
CreateSucceeded(q) ==
  /\ mounted /\ q \in Awaited("create")
  /\ newDeviceName' = ""
  /\ newDeviceType' = "light"
  /\ newDeviceLocation' = ""
  /\ error' = ""
  /\ refreshing' = TRUE
  /\ pending' = Issue(Settle(pending, q), LoadRequest(q.room))
  /\ last' = [op |-> "create_ok", req |-> q]
  /\ UNCHANGED <<mounted, roomId, room, roomForm, devices, loading, wsStatus,
                 socketRef, sockets, nav>>
  /\ UNCHANGED <<upsertVars, canvasVars, appVars, authVars, formVars, tabVars>>

\* the creation rejected: the catch block, lines 451-458
CreateFailed(q, e) ==
  /\ mounted /\ q \in Awaited("create")
  /\ error' = ErrorDetail(ResponseError(e), "Could not create device.")
  /\ pending' = Settle(pending, q)
  /\ last' = Rejected("create_failed", q, e)
  /\ UNCHANGED <<mounted, roomId, room, roomForm, devices, loading, refreshing,
                 wsStatus, socketRef, sockets, nav>>
  /\ UNCHANGED otherVars

\* onChange of the room name input of the settings form
setRoomName(v) ==
  /\ mounted /\ OnSettingsTab /\ ~loading
  /\ roomForm' = [roomForm EXCEPT !.roomName = v]
  /\ last' = [op |-> "other"]
  /\ UNCHANGED <<mounted, roomId, room, devices, loading, refreshing, error,
                 wsStatus, socketRef, sockets, pending, nav>>
  /\ UNCHANGED otherVars

\* handleBackgroundFileChange (lines 490-506): without a file the pending
\* file is cleared and the preview is the room's background; with a file it
\* becomes the pending file and the preview is the reader's data URL, whose
\* onload is taken together with the handler
MaxReaders == 1

setRoomSlug(v) ==
  /\ mounted /\ OnSettingsTab /\ ~loading
  /\ roomForm' = [roomForm EXCEPT !.roomSlug = v]
  /\ last' = [op |-> "other"]
  /\ UNCHANGED <<mounted, roomId, room, devices, loading, refreshing, error,
                 wsStatus, socketRef, sockets, pending, nav>>
  /\ UNCHANGED otherVars

\* the handler returns after reader.readAsDataURL(file); the preview is set
\* later, by the reader's onload
handleBackgroundFileChange(hasFile) ==
  /\ mounted /\ OnSettingsTab /\ ~loading
  /\ IF ~hasFile
     THEN /\ roomForm' = [roomForm EXCEPT
                            !.backgroundFile = FALSE,
                            !.backgroundPreview = roomForm.roomBackgroundUrl]
          /\ readers' = readers
     ELSE /\ readers < MaxReaders
          /\ roomForm' = [roomForm EXCEPT !.backgroundFile = TRUE]
          /\ readers' = readers + 1
  /\ last' = [op |-> "other"]
  /\ UNCHANGED <<mounted, roomId, room, devices, loading, refreshing, error,
                 wsStatus, socketRef, sockets, pending, nav>>
  /\ UNCHANGED <<upsertVars, createVars, canvasVars, appVars, authVars,
                 formVars, activeTab>>

\* reader.onload: setBackgroundPreview(evt.target.result); the setter of an
\* unmounted component does nothing
readerOnload ==
  /\ readers > 0
  /\ readers' = readers - 1
  /\ roomForm' = IF mounted
                 THEN [roomForm EXCEPT !.backgroundPreview = "data:image/png"]
                 ELSE roomForm
  /\ last' = [op |-> "other"]
  /\ UNCHANGED <<mounted, roomId, room, devices, loading, refreshing, error,
                 wsStatus, socketRef, sockets, pending, nav>>
  /\ UNCHANGED <<upsertVars, createVars, canvasVars, appVars, authVars,
                 formVars, activeTab>>

SettingsSlugs == {"kitchen", "den"}

\* mutant of SaveRequest: the pending file is never sent
SaveRequest_AlwaysJson(roomData, form) ==
  [kind |-> "save", room |-> roomData.id, encoding |-> "json",
   body |-> [name |-> form.roomName, slug |-> form.roomSlug]]

\* updateRoom(room.id, payload): multipart with the file, else a JSON patch
SaveRequest(roomData, form) ==
  [kind |-> "save", room |-> roomData.id,
   encoding |-> IF form.backgroundFile THEN "multipart" ELSE "json",
   body |-> IF form.backgroundFile
            THEN [name |-> form.roomName, slug |-> form.roomSlug,
                  background_image |-> TRUE]
            ELSE [name |-> form.roomName, slug |-> form.roomSlug]]

\* the room the server answers a save with
SavedRoom(q) ==
  [id |-> q.room, name |-> q.body.name, slug |-> q.body.slug,
   background_image_url |->
     IF q.encoding = "multipart" THEN "/media/rooms/bg.png" ELSE ""]

\* submit of the settings form: nothing without a room
handleSaveSettings ==
  /\ mounted /\ OnSettingsTab /\ ~loading
  /\ IF room = NoRoom
     THEN /\ last' = [op |-> "save_ignored"]
          /\ UNCHANGED <<error, pending>>
     ELSE /\ CanIssue
          /\ error' = ""
          /\ pending' = Issue(pending, SaveRequest(room, roomForm))
          /\ last' = [op |-> "save", req |-> SaveRequest(room, roomForm)]
  /\ UNCHANGED <<mounted, roomId, room, roomForm, devices, loading, refreshing,
                 wsStatus, socketRef, sockets, nav>>
  /\ UNCHANGED otherVars

\* the save resolved: setRoom(updatedRoom), syncRoomForm(updatedRoom)
SaveSucceeded(q) ==
  /\ mounted /\ q \in Awaited("save")
  /\ room' = SavedRoom(q)
  /\ roomForm' = syncRoomForm(roomForm, SavedRoom(q))
  /\ pending' = Settle(pending, q)
  /\ last' = [op |-> "save_ok", req |-> q]
  /\ UNCHANGED <<mounted, roomId, devices, loading, refreshing, error, wsStatus,
                 socketRef, sockets, nav>>
  /\ UNCHANGED otherVars

\* the save rejected: the catch block, lines 535-542
SaveFailed(q, e) ==
  /\ mounted /\ q \in Awaited("save")
  /\ error' = ErrorDetail(ResponseError(e), "Could not save room settings.")
  /\ pending' = Settle(pending, q)
  /\ last' = Rejected("save_failed", q, e)
  /\ UNCHANGED <<mounted, roomId, room, roomForm, devices, loading, refreshing,
                 wsStatus, socketRef, sockets, nav>>
  /\ UNCHANGED otherVars

(***************************************************************************)
(* SpecCreate: the creation form of a loaded room, its requests and the    *)
(* loads it triggers.  The device lists the server answers with include    *)
(* one that carries a device of another room; the rooms list may lack the  *)
(* displayed room.                                                         *)
(***************************************************************************)
CreateNames == {"", "Lamp"}
CreateLocations == {"", "Near window"}
CreateLists(r) ==
  {<<ServerDevice(r, FALSE)>>,
   <<ServerDevice(r, FALSE), ServerDevice(3 - r, TRUE)>>}
CreateErrors ==
  {[hasResponse |-> FALSE],
   [hasResponse |-> TRUE, status |-> 500, data |-> [detail |-> "Not allowed."]],
   [hasResponse |-> TRUE, status |-> 403, data |-> <<>>]}

CreateInit ==
  /\ LoadedRoom(<<ServerDevice(1, FALSE)>>)
  /\ UpsertIdle /\ CreateFormInit /\ CanvasIdle /\ AppOnRoom

CreateNext ==
  \/ \E v \in CreateNames : setNewDeviceName(v)
  \/ \E v \in DeviceTypes : setNewDeviceType(v)
  \/ \E v \in CreateLocations : setNewDeviceLocation(v)
  \/ handleCreateDevice
  \/ \E q \in Awaited("create") : CreateSucceeded(q)
  \/ \E q \in Awaited("create"), e \in CreateErrors : CreateFailed(q, e)
  \/ \E q \in Awaited("load"), rooms \in RoomLists :
       \E l \in CreateLists(q.room) : LoadSucceeded(q, rooms, l)
  \/ \E q \in Awaited("load"), e \in CreateErrors : LoadFailed(q, e)
  \/ \E q \in BagToSet(pending) : SettledAfterUnmount(q)

SpecCreate == CreateInit /\ [][CreateNext]_vars

(***************************************************************************)
(* SpecSettings: the settings form of a loaded room: edits of the name,    *)
(* choosing and clearing a background file, saves that succeed or fail,    *)
(* and refreshes, whose loads synchronise the form again.                  *)
(***************************************************************************)
SettingsNames == {"Kitchen", "Den"}

SettingsNext ==
  \/ \E t \in Tabs : setActiveTab(t)
  \/ \E v \in SettingsNames : setRoomName(v)
  \/ \E v \in SettingsSlugs : setRoomSlug(v)
  \/ \E f \in BOOLEAN : handleBackgroundFileChange(f)
  \/ readerOnload
  \/ handleSaveSettings
  \/ \E q \in Awaited("save") : SaveSucceeded(q)
  \/ \E q \in Awaited("save"), e \in CreateErrors : SaveFailed(q, e)
  \/ handleRefreshClick
  \/ \E q \in Awaited("load"), rooms \in RoomLists :
       LoadSucceeded(q, rooms, <<ServerDevice(q.room, FALSE)>>)
  \/ \E q \in Awaited("load"), e \in CreateErrors : LoadFailed(q, e)
  \/ \E q \in BagToSet(pending) : SettledAfterUnmount(q)

SpecSettings == CreateInit /\ [][SettingsNext]_vars

(***************************************************************************)
(* SpecHandlers: every handler of the loaded room view that awaits a REST  *)
(* call (load, toggle, creation, position commit, settings save), each     *)
(* call resolving or failing without a response, with a failure status, or *)
(* with 401.                                                               *)
(***************************************************************************)
HandlerErrors ==
  {[hasResponse |-> FALSE],
   [hasResponse |-> TRUE, status |-> 500, data |-> [detail |-> "Not allowed."]],
   [hasResponse |-> TRUE, status |-> 400, data |-> [detail |-> ""]],
   [hasResponse |-> TRUE, status |-> 400, data |-> [name |-> "required"]],
   [hasResponse |-> TRUE, status |-> 401, data |-> <<>>]}
HandlerEvents == {[clientX |-> 13, clientY |-> 10], [clientX |-> 5, clientY |-> 40]}

HandlersNext ==
  \/ \E t \in Tabs : setActiveTab(t)
  \/ handleRefreshClick
  \/ \E q \in Awaited("load") :
       LoadSucceeded(q, <<RoomRecord(1), RoomRecord(2)>>, <<ServerDevice(q.room, FALSE)>>)
  \/ \E q \in Awaited("load"), e \in HandlerErrors : LoadFailed(q, e)
  \/ \E i \in DOMAIN devices : handleToggleDevice(i)
  \/ \E c \in Awaited("cmd") : CommandSucceeded(c)
  \/ \E c \in Awaited("cmd"), e \in HandlerErrors : CommandFailed(c, e)
  \/ setNewDeviceName("Lamp")
  \/ handleCreateDevice
  \/ \E q \in Awaited("create") : CreateSucceeded(q)
  \/ \E q \in Awaited("create"), e \in HandlerErrors : CreateFailed(q, e)
  \/ \E i \in DOMAIN devices, e \in HandlerEvents : handlePointerDown(i, e)
  \/ \E e \in HandlerEvents : handlePointerMove(e)
  \/ \E e \in HandlerEvents : finishDrag(e)
  \/ \E q \in Awaited("commit") : PositionCommitSucceeded(q)
  \/ \E q \in Awaited("commit"), e \in HandlerErrors : PositionCommitFailed(q, e)
  \/ handleSaveSettings
  \/ \E q \in Awaited("save") : SaveSucceeded(q)
  \/ \E q \in Awaited("save"), e \in HandlerErrors : SaveFailed(q, e)
  \/ \E q \in BagToSet(pending) : SettledAfterUnmount(q)

SpecHandlers == CreateInit /\ [][HandlersNext]_vars

(***************************************************************************)
(* The application (App.js): the user state, the routes, and the load each *)
(* protected page starts when it mounts (DashboardPage.js lines 579-624,   *)
(* RoomPage.js lines 244-302, DeviceSettingsPage.js lines 84-116).         *)
(* navigate() changes the pathname; <Routes> then renders the element of   *)
(* the new pathname, which is a page or a <Navigate> redirect.             *)
(***************************************************************************)
NoUser == ""
NoToken == ""
AppPaths == {"/login", "/", "/rooms/1", "/devices/1/settings"}

\* the component each protected route wraps in <ProtectedRoute>
PageOf(path) ==
  CASE path = "/" -> "dashboard"
    [] path = "/rooms/1" -> "room"
    [] path = "/devices/1/settings" -> "settings"
    [] OTHER -> "none"

\* the element <Routes> renders for a path: a page, or a redirect
\* mutant of RouteElement: the routes render their element whoever the user is
RouteElement_NoGuard(path, u) ==
  IF path = "/login" THEN [page |-> "login"]
  ELSE IF PageOf(path) # "none" THEN [page |-> PageOf(path)]
  ELSE [redirect |-> "/"]

RouteElement(path, u) ==
  IF path = "/login"
  THEN IF u # NoUser THEN [redirect |-> "/"] ELSE [page |-> "login"]
  ELSE IF PageOf(path) # "none"
       THEN IF u = NoUser THEN [redirect |-> "/login"] ELSE [page |-> PageOf(path)]
       ELSE IF u # NoUser THEN [redirect |-> "/"] ELSE [redirect |-> "/login"]

\* the fallback message of each page's load
LoadFallback(p) ==
  CASE p = "dashboard" -> "Failed to load dashboard data."
    [] p = "room" -> "Failed to load room data."
    [] OTHER -> "Failed to load device settings."

\* mutant of LoadCatch: a 401/403 is shown inline like any other failure
LoadCatch_ShowsError(err, fallback) ==
  [navigate |-> "", error |-> ErrorDetail(err, fallback), setsError |-> TRUE]

\* the catch block of a page's load: navigate("/login") and return on 401 or
\* 403, setError(detail) otherwise
LoadCatch(err, fallback) ==
  IF ErrorStatus(err) \in {401, 403}
  THEN [navigate |-> "/login", error |-> "", setsError |-> FALSE]
  ELSE [navigate |-> "", error |-> ErrorDetail(err, fallback), setsError |-> TRUE]

\* the load() call of the k-th mounted page component
PageLoad(p, k) == [page |-> p, inst |-> k]

\* the request interceptor (api.js lines 49-60): the headers of a request
\* sent while the storage item authToken is token
RequestHeaders(token) ==
  IF token # NoToken THEN [Authorization |-> <<"Token", token>>] ELSE <<>>

\* the page component that issued q is the one mounted now
Current(q) == q.page = page /\ q.inst = pageInst

\* <Routes> renders the current pathname: a redirect replaces the pathname;
\* a page that is already mounted stays as it is; otherwise the page mounts
\* with fresh state, and a protected page's effect starts its load
RenderRoutes ==
  /\ ~routed
  /\ LET el == RouteElement(pathname, user)
     IN IF "redirect" \in DOMAIN el
        THEN /\ pathname' = el.redirect
             /\ page' = "none"
             /\ last' = [op |-> "render", sent |-> <<>>]
             /\ UNCHANGED <<routed, pageInst, pageLoading, pageError, pageLoads,
                            mode, loginError, loginLoading, pageForm>>
        ELSE IF el.page = page
        THEN /\ routed' = TRUE
             /\ last' = [op |-> "render", sent |-> <<>>]
             /\ UNCHANGED <<pathname, page, pageInst, pageLoading, pageError,
                            pageLoads, mode, loginError, loginLoading, pageForm>>
        ELSE /\ pageInst < MaxMounts
             /\ routed' = TRUE
             /\ page' = el.page
             /\ pageInst' = pageInst + 1
             /\ pageError' = ""
             /\ pageLoading' = (el.page # "login")
             /\ pageLoads' = IF el.page = "login" THEN pageLoads
                             ELSE pageLoads (+) SetToBag({PageLoad(el.page, pageInst + 1)})
             /\ last' = [op |-> "render",
                         sent |-> IF el.page = "login" THEN <<>>
                                  ELSE <<RequestHeaders(authToken)>>]
             /\ mode' = "login" /\ loginError' = "" /\ loginLoading' = FALSE
             /\ pageForm' = EmptyPageForm
             /\ pathname' = pathname
  /\ UNCHANGED <<user, sessionExpired>>
  /\ UNCHANGED <<authToken, authUser, authPending, issuedToken, logoutInvoked>>
  /\ UNCHANGED <<mounted, roomId, room, roomForm, devices, loading, refreshing,
                 error, wsStatus, socketRef, sockets, pending, nav>>
  /\ UNCHANGED <<upsertVars, createVars, canvasVars, pageCalls, tabVars>>

\* a link or button of a protected page calls navigate(path)
AppNavigate(path) ==
  /\ routed /\ page \in {"dashboard", "room", "settings"}
  /\ path # pathname /\ path # "/login"
  /\ pathname' = path
  /\ routed' = FALSE
  /\ last' = [op |-> "navigate"]
  /\ UNCHANGED <<user, page, pageInst, pageLoading, pageError, pageLoads,
                 sessionExpired>>
  /\ UNCHANGED <<mounted, roomId, room, roomForm, devices, loading, refreshing,
                 error, wsStatus, socketRef, sockets, pending, nav>>
  /\ UNCHANGED <<upsertVars, createVars, canvasVars, authVars, formVars, tabVars>>

\* every request of a page's load answered: the try block and the finally
PageLoadSucceeded(q) ==
  /\ BagIn(q, pageLoads)
  /\ pageLoads' = pageLoads (-) SetToBag({q})
  /\ pageLoading' = IF Current(q) THEN FALSE ELSE pageLoading
  /\ pageForm' = IF ~Current(q) THEN pageForm
                 ELSE IF q.page = "settings"
                 THEN AfterPageLoad(q, [pageForm EXCEPT !.device = LoadedDevice])
                 ELSE AfterPageLoad(q, pageForm)
  /\ last' = [op |-> "page_load_ok", req |-> q]
  /\ UNCHANGED <<user, pathname, routed, page, pageInst, pageError,
                 sessionExpired>>
  /\ UNCHANGED <<mounted, roomId, room, roomForm, devices, loading, refreshing,
                 error, wsStatus, socketRef, sockets, pending, nav>>
  /\ UNCHANGED <<upsertVars, createVars, canvasVars, authVars, pageCalls, tabVars>>

\* a request of a page's load rejected: the catch block and the finally.  The
\* state setters of an unmounted component do nothing; navigate() still acts.
PageLoadFailed(q, e) ==
  /\ BagIn(q, pageLoads)
  /\ pageLoads' = pageLoads (-) SetToBag({q})
  /\ LET c == LoadCatch(ResponseError(e), LoadFallback(q.page))
     IN /\ IF c.navigate # ""
           THEN /\ pathname' = c.navigate
                /\ routed' = FALSE
                /\ sessionExpired' = (sessionExpired \/ user # NoUser)
           ELSE UNCHANGED <<pathname, routed, sessionExpired>>
        /\ pageError' = IF c.setsError /\ Current(q) THEN c.error ELSE pageError
        /\ last' = [op |-> "page_load_failed", req |-> q, current |-> Current(q),
                    status |-> IF e.hasResponse THEN e.status ELSE 0]
  /\ pageLoading' = IF Current(q) THEN FALSE ELSE pageLoading
  /\ pageForm' = IF Current(q) THEN AfterPageLoad(q, pageForm) ELSE pageForm
  /\ UNCHANGED <<user, page, pageInst>>
  /\ UNCHANGED <<mounted, roomId, room, roomForm, devices, loading, refreshing,
                 error, wsStatus, socketRef, sockets, pending, nav>>
  /\ UNCHANGED <<upsertVars, createVars, canvasVars, authVars, pageCalls, tabVars>>

\* handleAuthSuccess: the login page reports a successful login of user u
handleAuthSuccess(u) ==
  /\ routed /\ page = "login"
  /\ user' = u
  /\ pathname' = "/"
  /\ routed' = FALSE
  /\ sessionExpired' = FALSE
  /\ last' = [op |-> "auth"]
  /\ UNCHANGED <<page, pageInst, pageLoading, pageError, pageLoads>>
  /\ UNCHANGED <<mounted, roomId, room, roomForm, devices, loading, refreshing,
                 error, wsStatus, socketRef, sockets, pending, nav>>
  /\ UNCHANGED <<upsertVars, createVars, canvasVars, authVars, formVars, tabVars>>

(***************************************************************************)
(* SpecApp: the application from its first render, for a stored user or    *)
(* none and any initial path, with every outcome of the pages' loads.      *)
(***************************************************************************)
AppErrors ==
  {[hasResponse |-> FALSE],
   [hasResponse |-> TRUE, status |-> 500, data |-> [detail |-> "Not allowed."]],
   [hasResponse |-> TRUE, status |-> 401, data |-> <<>>],
   [hasResponse |-> TRUE, status |-> 403, data |-> [detail |-> "Not allowed."]]}

AppInit ==
  /\ user \in {NoUser, "alice"}
  /\ pathname \in AppPaths
  /\ routed = FALSE
  /\ page = "none"
  /\ pageInst = 0
  /\ pageLoading = FALSE
  /\ pageError = ""
  /\ pageLoads = EmptyBag
  /\ sessionExpired = FALSE
  /\ StoredSession(user, IF user = NoUser THEN NoToken ELSE "t1")
  /\ FormIdle /\ TabInit
  /\ mounted = FALSE /\ roomId = 1 /\ room = NoRoom /\ roomForm = EmptyForm
  /\ devices = <<>> /\ loading = TRUE /\ refreshing = FALSE /\ error = ""
  /\ wsStatus = "idle" /\ socketRef = 0 /\ sockets = <<>>
  /\ pending = EmptyBag /\ nav = "" /\ last = [op |-> "init"]
  /\ UpsertIdle /\ CreateFormInit /\ CanvasIdle

AppNext ==
  \/ RenderRoutes
  \/ \E path \in AppPaths : AppNavigate(path)
  \/ \E q \in BagToSet(pageLoads) : PageLoadSucceeded(q)
  \/ \E q \in BagToSet(pageLoads), e \in AppErrors : PageLoadFailed(q, e)
  \/ handleAuthSuccess("alice")

SpecApp == AppInit /\ [][AppNext]_vars

(***************************************************************************)
(* Authentication: LoginPage.js (handleSubmit, toggleMode), the login,     *)
(* register and logout functions and the request interceptor of api.js,    *)
(* and handleLogout and the user state initialiser of App.js.              *)
(***************************************************************************)
\* res.data.token || res.data.key
TokenOf(data) ==
  IF "token" \in DOMAIN data /\ data.token # NoToken THEN data.token
  ELSE IF "key" \in DOMAIN data /\ data.key # NoToken THEN data.key
  ELSE NoToken

\* login: res.data.user || res.data.profile || null; register: res.data.user || null
UserOf(kind, data) ==
  IF "user" \in DOMAIN data /\ data.user # NoUser THEN data.user
  ELSE IF kind = "login" /\ "profile" \in DOMAIN data /\ data.profile # NoUser
       THEN data.profile
  ELSE NoUser

\* err.response?.data?.detail || err.response?.data?.non_field_errors?.[0]
\*   || err.message || 'Something went wrong. Please check your input.'
LoginErrorDetail(err) ==
  LET data == IF "response" \in DOMAIN err /\ "data" \in DOMAIN err.response
              THEN err.response.data ELSE <<>>
  IN IF "detail" \in DOMAIN data /\ data.detail # "" THEN data.detail
     ELSE IF "non_field_errors" \in DOMAIN data
             /\ Len(data.non_field_errors) >= 1 /\ data.non_field_errors[1] # ""
          THEN data.non_field_errors[1]
     ELSE IF "message" \in DOMAIN err /\ err.message # "" THEN err.message
     ELSE "Something went wrong. Please check your input."

\* the login page that issued q is the one mounted now
CurrentLogin(q) == page = "login" /\ q.inst = pageInst

\* click on the mode button of the login page
toggleMode ==
  /\ routed /\ page = "login" /\ ~loginLoading
  /\ mode' = IF mode = "login" THEN "register" ELSE "login"
  /\ loginError' = ""
  /\ last' = [op |-> "toggle_mode"]
  /\ UNCHANGED <<authToken, authUser, loginLoading, authPending, issuedToken,
                 logoutInvoked>>
  /\ UNCHANGED <<roomVars_NoLast, appVars, upsertVars, createVars, canvasVars, formVars, tabVars>>

\* submit of the login form: apiLogin or apiRegister is called
handleSubmit ==
  /\ routed /\ page = "login" /\ ~loginLoading
  /\ BagCardinality(authPending) < MaxAuthPending
  /\ loginError' = ""
  /\ loginLoading' = TRUE
  /\ authPending' = authPending (+) SetToBag({[kind |-> mode, inst |-> pageInst]})
  /\ last' = [op |-> "submit", sent |-> <<RequestHeaders(authToken)>>]
  /\ UNCHANGED <<authToken, authUser, mode, issuedToken, logoutInvoked>>
  /\ UNCHANGED <<roomVars_NoLast, appVars, upsertVars, createVars, canvasVars, formVars, tabVars>>

\* the login or register call resolved with body data: the storage writes of
\* api.js, then onAuthSuccess(data) = handleAuthSuccess, then the finally
LoginSucceeded(q, data) ==
  /\ BagIn(q, authPending) /\ q.kind \in {"login", "register"}
  /\ authPending' = authPending (-) SetToBag({q})
  /\ LET token == TokenOf(data)
         u == UserOf(q.kind, data)
     IN /\ authToken' = IF token # NoToken THEN token ELSE authToken
        /\ authUser' = IF u # NoUser THEN u ELSE authUser
        /\ issuedToken' = token
        /\ user' = u
        /\ logoutInvoked' = IF u # NoUser THEN FALSE ELSE logoutInvoked
        /\ last' = [op |-> "login_ok", kind |-> q.kind, token |-> token, user |-> u]
  /\ pathname' = "/"
  /\ routed' = FALSE
  /\ sessionExpired' = FALSE
  /\ loginLoading' = IF CurrentLogin(q) THEN FALSE ELSE loginLoading
  /\ UNCHANGED <<mode, loginError, page, pageInst, pageLoading, pageError, pageLoads>>
  /\ UNCHANGED <<roomVars_NoLast, upsertVars, createVars, canvasVars, formVars, tabVars>>

\* the login or register call rejected: the catch block and the finally
LoginFailed(q, e) ==
  /\ BagIn(q, authPending) /\ q.kind \in {"login", "register"}
  /\ authPending' = authPending (-) SetToBag({q})
  /\ loginError' = IF CurrentLogin(q) THEN LoginErrorDetail(ResponseError(e))
                   ELSE loginError
  /\ loginLoading' = IF CurrentLogin(q) THEN FALSE ELSE loginLoading
  /\ last' = [op |-> "login_failed", kind |-> q.kind, current |-> CurrentLogin(q),
              responded |-> e.hasResponse,
              body |-> IF e.hasResponse THEN e.data ELSE <<>>]
  /\ UNCHANGED <<authToken, authUser, mode, issuedToken, logoutInvoked>>
  /\ UNCHANGED <<roomVars_NoLast, appVars, upsertVars, createVars, canvasVars, formVars, tabVars>>

\* click on Log out in the layout of a protected page: apiLogout is called
handleLogout ==
  /\ routed /\ page \in {"dashboard", "room", "settings"}
  /\ BagCardinality(authPending) < MaxAuthPending
  /\ authPending' = authPending (+) SetToBag({[kind |-> "logout"]})
  /\ logoutInvoked' = TRUE
  /\ last' = [op |-> "logout", sent |-> <<RequestHeaders(authToken)>>]
  /\ UNCHANGED <<authToken, authUser, mode, loginError, loginLoading, issuedToken>>
  /\ UNCHANGED <<roomVars_NoLast, appVars, upsertVars, createVars, canvasVars, formVars, tabVars>>

\* the logout request settled, resolved or rejected alike: logout() removes
\* both storage items, and the finally of handleLogout clears the user and
\* navigates to /login
\* mutant of LogoutSettled: the storage keys are removed only when the
\* server request succeeded
LogoutSettled_KeepsOnFailure(q, ok) ==
  /\ BagIn(q, authPending) /\ q.kind = "logout"
  /\ authPending' = authPending (-) SetToBag({q})
  /\ authToken' = IF ok THEN NoToken ELSE authToken
  /\ authUser' = IF ok THEN NoUser ELSE authUser
  /\ user' = NoUser
  /\ pathname' = "/login"
  /\ routed' = FALSE
  /\ last' = [op |-> "logout_done", ok |-> ok]
  /\ UNCHANGED <<mode, loginError, loginLoading, issuedToken, logoutInvoked>>
  /\ UNCHANGED <<page, pageInst, pageLoading, pageError, pageLoads, sessionExpired>>
  /\ UNCHANGED <<roomVars_NoLast, upsertVars, createVars, canvasVars, formVars, tabVars>>

LogoutSettled(q, ok) ==
  /\ BagIn(q, authPending) /\ q.kind = "logout"
  /\ authPending' = authPending (-) SetToBag({q})
  /\ authToken' = NoToken
  /\ authUser' = NoUser
  /\ user' = NoUser
  /\ pathname' = "/login"
  /\ routed' = FALSE
  /\ last' = [op |-> "logout_done", ok |-> ok]
  /\ UNCHANGED <<mode, loginError, loginLoading, issuedToken, logoutInvoked>>
  /\ UNCHANGED <<page, pageInst, pageLoading, pageError, pageLoads, sessionExpired>>
  /\ UNCHANGED <<roomVars_NoLast, upsertVars, createVars, canvasVars, formVars, tabVars>>

\* the browser reloads the application at the current path: every call in
\* flight is dropped and App initialises its user state from storage
Reload ==
  /\ routed
  /\ user' = authUser
  /\ page' = "none"
  /\ routed' = FALSE
  /\ pageLoads' = EmptyBag
  /\ authPending' = EmptyBag
  /\ pageLoading' = FALSE /\ pageError' = ""
  /\ mode' = "login" /\ loginError' = "" /\ loginLoading' = FALSE
  /\ last' = [op |-> "reload"]
  /\ pageForm' = EmptyPageForm
  /\ pageCalls' = EmptyBag
  /\ UNCHANGED <<pathname, pageInst, sessionExpired, authToken, authUser,
                 issuedToken, logoutInvoked>>
  /\ UNCHANGED <<roomVars_NoLast, upsertVars, createVars, canvasVars, tabVars>>

(***************************************************************************)
(* SpecAuth: the application from its first render with empty or filled    *)
(* storage; logins and registrations answered with every shape of body,    *)
(* logouts, reloads, and the pages' loads with every outcome.              *)
(***************************************************************************)
\* bodies of a successful login or register response
LoginResponses ==
  {[token |-> "t1", user |-> "alice"],
   [key |-> "t2", profile |-> "alice"],
   [token |-> "t2"],
   [user |-> "alice"]}

\* rejections of a login or register call
LoginErrors ==
  {[hasResponse |-> FALSE],
   [hasResponse |-> TRUE, status |-> 400, data |-> [detail |-> "Invalid credentials."]],
   [hasResponse |-> TRUE, status |-> 400,
    data |-> [non_field_errors |-> <<"Unable to log in.">>]],
   [hasResponse |-> TRUE, status |-> 400, data |-> [username |-> "required"]]}

AuthLoadErrors ==
  {[hasResponse |-> TRUE, status |-> 500, data |-> [detail |-> "Not allowed."]],
   [hasResponse |-> TRUE, status |-> 401, data |-> <<>>]}

AuthInit ==
  /\ AppInit
  /\ pathname \in {"/login", "/"}

AuthNext ==
  \/ RenderRoutes
  \/ toggleMode
  \/ handleSubmit
  \/ \E q \in BagToSet(authPending), data \in LoginResponses : LoginSucceeded(q, data)
  \/ \E q \in BagToSet(authPending), e \in LoginErrors : LoginFailed(q, e)
  \/ handleLogout
  \/ \E q \in BagToSet(authPending), ok \in BOOLEAN : LogoutSettled(q, ok)
  \/ Reload
  \/ \E q \in BagToSet(pageLoads) : PageLoadSucceeded(q)
  \/ \E q \in BagToSet(pageLoads), e \in AuthLoadErrors : PageLoadFailed(q, e)

SpecAuth == AuthInit /\ [][AuthNext]_vars

(***************************************************************************)
(* The creation forms of DashboardPage.js (rooms, integrations) and of     *)
(* DeviceSettingsPage.js (endpoints).  The inputs of the dashboard forms   *)
(* are disabled while loading; the endpoint form is rendered only when     *)
(* the page is not loading and has a device, and its button is disabled    *)
(* while savingEndpoint.                                                   *)
(***************************************************************************)
MaxPageCalls == 2

CanCall == BagCardinality(pageCalls) + BagCardinality(pageLoads) < MaxPageCalls

OnDashboard == routed /\ page = "dashboard" /\ ~pageLoading
OnEndpointForm ==
  routed /\ page = "settings" /\ ~pageLoading /\ pageForm.device # NoDevice

\* the body handleCreateRoom passes to createRoom
CreateRoomBody(form) ==
  [name |-> form.newRoomName, slug |-> form.newRoomSlug,
   background_image_url |-> IF form.newRoomBackground = "" THEN JNull
                            ELSE [t |-> "string", v |-> form.newRoomBackground]]

\* the body handleCreateIntegration passes to createIntegration
CreateIntegrationBody(form) ==
  [provider |-> form.newIntegrationProvider,
   display_name |-> form.newIntegrationName,
   access_token |-> "", refresh_token |-> "", metadata |-> <<>>]

\* the fields of the body handleAddEndpoint passes to createEndpoint that
\* come from the device, the connector select and the address input
CreateEndpointBody(form) ==
  [device |-> form.device, connector_id |-> form.endpointConnectorId,
   address |-> form.endpointAddress]

PageCall(kind, body) ==
  [kind |-> kind, page |-> page, inst |-> pageInst, body |-> body]

\* the load a creation handler awaits after its call: load({isRefresh: true})
\* on the dashboard, load() followed by the finally block of handleAddEndpoint
\* on the device settings
PageReload(q) ==
  IF q.kind = "endpoint"
  THEN [page |-> q.page, inst |-> q.inst, then |-> "savingEndpoint"]
  ELSE PageLoad(q.page, q.inst)

CreateFallback(kind) ==
  CASE kind = "room" -> "Could not create room."
    [] kind = "integration" -> "Could not create integration."
    [] OTHER -> "Could not create endpoint."

FormUnchanged ==
  /\ UNCHANGED <<user, pathname, routed, page, pageInst, sessionExpired>>
  /\ UNCHANGED <<roomVars_NoLast, upsertVars, createVars, canvasVars, authVars, tabVars>>

setPageField(f, v) ==
  /\ pageForm' = [pageForm EXCEPT ![f] = v]
  /\ last' = [op |-> "set_field", field |-> f]
  /\ UNCHANGED <<pageLoading, pageError, pageLoads, pageCalls>>
  /\ FormUnchanged

setNewRoomName(v) == OnDashboard /\ setPageField("newRoomName", v)
setNewRoomSlug(v) == OnDashboard /\ setPageField("newRoomSlug", v)
setNewRoomBackground(v) == OnDashboard /\ setPageField("newRoomBackground", v)
setNewIntegrationName(v) == OnDashboard /\ setPageField("newIntegrationName", v)
setEndpointConnectorId(v) ==
  OnEndpointForm /\ setPageField("endpointConnectorId", v)
setEndpointAddress(v) == OnEndpointForm /\ setPageField("endpointAddress", v)
setNewIntegrationProvider(v) ==
  OnDashboard /\ setPageField("newIntegrationProvider", v)

\* a submit that returns before its try block: nothing is set, nothing is sent
SubmitIgnored(op) ==
  /\ last' = [op |-> op]
  /\ UNCHANGED <<pageForm, pageLoading, pageError, pageLoads, pageCalls>>

SubmitCalls(op, q, form) ==
  /\ CanCall
  /\ pageError' = ""
  /\ pageForm' = form
  /\ pageCalls' = Issue(pageCalls, q)
  /\ last' = [op |-> op, req |-> q]
  /\ UNCHANGED <<pageLoading, pageLoads>>

\* mutant of handleCreateRoom: only the name is required
handleCreateRoom_NameOnly ==
  /\ OnDashboard
  /\ IF pageForm.newRoomName = ""
     THEN SubmitIgnored("create_room_ignored")
     ELSE SubmitCalls("create_room",
                      PageCall("room", CreateRoomBody(pageForm)), pageForm)
  /\ FormUnchanged

handleCreateRoom ==
  /\ OnDashboard
  /\ IF pageForm.newRoomName = "" \/ pageForm.newRoomSlug = ""
     THEN SubmitIgnored("create_room_ignored")
     ELSE SubmitCalls("create_room",
                      PageCall("room", CreateRoomBody(pageForm)), pageForm)
  /\ FormUnchanged

handleCreateIntegration ==
  /\ OnDashboard
  /\ IF pageForm.newIntegrationName = ""
     THEN SubmitIgnored("create_integration_ignored")
     ELSE SubmitCalls("create_integration",
                      PageCall("integration", CreateIntegrationBody(pageForm)),
                      pageForm)
  /\ FormUnchanged

handleAddEndpoint ==
  /\ OnEndpointForm /\ ~pageForm.savingEndpoint
  /\ IF pageForm.device = NoDevice
     THEN SubmitIgnored("add_endpoint_ignored")
     ELSE IF pageForm.endpointConnectorId = "" \/ pageForm.endpointAddress = ""
     THEN SubmitIgnored("add_endpoint_ignored")
     ELSE SubmitCalls("add_endpoint",
                      PageCall("endpoint", CreateEndpointBody(pageForm)),
                      [pageForm EXCEPT !.savingEndpoint = TRUE])
  /\ FormUnchanged

CreateKinds == {"room", "integration", "endpoint"}

\* the creation call resolved: the handler resets its fields and awaits a load
PageCreateSucceeded(q) ==
  /\ BagIn(q, pageCalls) /\ q.kind \in CreateKinds
  /\ pageCalls' = Settle(pageCalls, q)
  /\ pageLoads' = Issue(pageLoads, PageReload(q))
  /\ IF Current(q)
     THEN /\ pageError' = ""
          /\ pageLoading' = IF q.kind = "endpoint" THEN TRUE ELSE pageLoading
          /\ pageForm' =
               CASE q.kind = "room" ->
                      [pageForm EXCEPT !.newRoomName = "", !.newRoomSlug = "",
                                       !.newRoomBackground = "",
                                       !.refreshing = TRUE]
                 [] q.kind = "integration" ->
                      [pageForm EXCEPT !.newIntegrationName = "",
                                       !.refreshing = TRUE]
                 [] OTHER -> [pageForm EXCEPT !.endpointAddress = ""]
     ELSE UNCHANGED <<pageError, pageLoading, pageForm>>
  /\ last' = [op |-> "page_create_ok", req |-> q]
  /\ FormUnchanged

\* the creation call was rejected: the catch block shows the detail, and the
\* finally block of handleAddEndpoint ends the saving
PageCreateFailed(q, e) ==
  /\ BagIn(q, pageCalls) /\ q.kind \in CreateKinds
  /\ pageCalls' = Settle(pageCalls, q)
  /\ IF Current(q)
     THEN /\ pageError' = ErrorDetail(ResponseError(e), CreateFallback(q.kind))
          /\ pageForm' = IF q.kind = "endpoint"
                         THEN [pageForm EXCEPT !.savingEndpoint = FALSE]
                         ELSE pageForm
     ELSE UNCHANGED <<pageError, pageForm>>
  /\ last' = Rejected("page_create_failed", q, e)
  /\ UNCHANGED <<pageLoading, pageLoads>>
  /\ FormUnchanged

\* DashboardPage handleRefreshClick: load({ isRefresh: true }); the button is
\* disabled while loading or refreshing
dashboardRefreshClick ==
  /\ routed /\ page = "dashboard"
  /\ ~pageLoading /\ ~pageForm.refreshing
  /\ CanCall
  /\ pageError' = ""
  /\ pageForm' = [pageForm EXCEPT !.refreshing = TRUE]
  /\ pageLoads' = Issue(pageLoads, PageLoad(page, pageInst))
  /\ last' = [op |-> "page_refresh"]
  /\ UNCHANGED <<pageLoading, pageCalls>>
  /\ FormUnchanged

\* DeviceSettingsPage handleSaveDevice, up to the await.  The fields of the
\* device form are not variables of the model: the body names the device.
handleSaveDevice ==
  /\ OnEndpointForm /\ ~pageForm.savingDevice
  /\ IF pageForm.device = NoDevice
     THEN SubmitIgnored("save_device_ignored")
     ELSE SubmitCalls("save_device",
                      PageCall("save_device", [device |-> pageForm.device]),
                      [pageForm EXCEPT !.savingDevice = TRUE])
  /\ FormUnchanged

\* setDevice(updated), syncDeviceForm(updated), then the finally block
SaveDeviceSucceeded(q) ==
  /\ BagIn(q, pageCalls) /\ q.kind = "save_device"
  /\ pageCalls' = Settle(pageCalls, q)
  /\ pageForm' = IF Current(q)
                 THEN [pageForm EXCEPT !.device = LoadedDevice,
                                       !.savingDevice = FALSE]
                 ELSE pageForm
  /\ last' = [op |-> "save_device_ok", req |-> q]
  /\ UNCHANGED <<pageLoading, pageError, pageLoads>>
  /\ FormUnchanged

SaveDeviceFailed(q, e) ==
  /\ BagIn(q, pageCalls) /\ q.kind = "save_device"
  /\ pageCalls' = Settle(pageCalls, q)
  /\ IF Current(q)
     THEN /\ pageError' = ErrorDetail(ResponseError(e),
                                      "Could not save device settings.")
          /\ pageForm' = [pageForm EXCEPT !.savingDevice = FALSE]
     ELSE UNCHANGED <<pageError, pageForm>>
  /\ last' = Rejected("save_device_failed", q, e)
  /\ UNCHANGED <<pageLoading, pageLoads>>
  /\ FormUnchanged

\* DeviceSettingsPage handleDeleteEndpoint, up to the await: nothing happens
\* unless window.confirm returns true
handleDeleteEndpoint(confirmed) ==
  /\ OnEndpointForm
  /\ IF ~confirmed
     THEN SubmitIgnored("delete_endpoint_ignored")
     ELSE SubmitCalls("delete_endpoint",
                      PageCall("delete_endpoint", [device |-> pageForm.device]),
                      pageForm)
  /\ FormUnchanged

\* the endpoint was deleted: await load()
DeleteEndpointSucceeded(q) ==
  /\ BagIn(q, pageCalls) /\ q.kind = "delete_endpoint"
  /\ pageCalls' = Settle(pageCalls, q)
  /\ pageLoads' = Issue(pageLoads, PageLoad(q.page, q.inst))
  /\ IF Current(q)
     THEN pageLoading' = TRUE /\ pageError' = ""
     ELSE UNCHANGED <<pageLoading, pageError>>
  /\ last' = [op |-> "delete_endpoint_ok", req |-> q]
  /\ UNCHANGED pageForm
  /\ FormUnchanged

DeleteEndpointFailed(q, e) ==
  /\ BagIn(q, pageCalls) /\ q.kind = "delete_endpoint"
  /\ pageCalls' = Settle(pageCalls, q)
  /\ pageError' = IF Current(q)
                  THEN ErrorDetail(ResponseError(e), "Could not delete endpoint.")
                  ELSE pageError
  /\ last' = Rejected("delete_endpoint_failed", q, e)
  /\ UNCHANGED <<pageForm, pageLoading, pageLoads>>
  /\ FormUnchanged

FormProviders == {"google_home", "nest"}

FormRoomNames == {"", "Kitchen"}
FormSlugs == {"", "kitchen"}
FormBackgrounds == {"", "bg.png"}
FormIntegrationNames == {"", "Nest"}
FormConnectors == {"", "c1"}
FormAddresses == {"", "40001"}

\* a logged-in user on the room view, on the dashboard or on the settings of
\* a device
FormsInit ==
  \/ CreateInit
  \/ AppInit /\ user = "alice" /\ pathname \in {"/", "/devices/1/settings"}

FormsNext ==
  \/ \E v \in CreateNames : setNewDeviceName(v)
  \/ handleCreateDevice
  \/ \E q \in Awaited("create") : CreateSucceeded(q)
  \/ \E q \in Awaited("create"), e \in CreateErrors : CreateFailed(q, e)
  \/ \E q \in Awaited("load"), rooms \in RoomLists :
       \E l \in CreateLists(q.room) : LoadSucceeded(q, rooms, l)
  \/ \E q \in Awaited("load"), e \in CreateErrors : LoadFailed(q, e)
  \/ \E q \in BagToSet(pending) : SettledAfterUnmount(q)
  \/ RenderRoutes
  \/ \E q \in BagToSet(pageLoads) : PageLoadSucceeded(q)
  \/ \E q \in BagToSet(pageLoads), e \in AppErrors : PageLoadFailed(q, e)
  \/ \E v \in FormRoomNames : setNewRoomName(v)
  \/ \E v \in FormSlugs : setNewRoomSlug(v)
  \/ \E v \in FormBackgrounds : setNewRoomBackground(v)
  \/ \E v \in FormIntegrationNames : setNewIntegrationName(v)
  \/ \E v \in FormConnectors : setEndpointConnectorId(v)
  \/ \E v \in FormAddresses : setEndpointAddress(v)
  \/ handleCreateRoom
  \/ handleCreateIntegration
  \/ handleAddEndpoint
  \/ \E q \in BagToSet(pageCalls) : PageCreateSucceeded(q)
  \/ \E q \in BagToSet(pageCalls), e \in CreateErrors : PageCreateFailed(q, e)
  \/ \E v \in FormProviders : setNewIntegrationProvider(v)
  \/ dashboardRefreshClick
  \/ handleSaveDevice
  \/ \E q \in BagToSet(pageCalls) : SaveDeviceSucceeded(q)
  \/ \E q \in BagToSet(pageCalls), e \in CreateErrors : SaveDeviceFailed(q, e)
  \/ \E c \in BOOLEAN : handleDeleteEndpoint(c)
  \/ \E q \in BagToSet(pageCalls) : DeleteEndpointSucceeded(q)
  \/ \E q \in BagToSet(pageCalls), e \in CreateErrors : DeleteEndpointFailed(q, e)

SpecForms == FormsInit /\ [][FormsNext]_vars

(***************************************************************************)
(* The loads of RoomPage: the load of the mount effect and of a room       *)
(* change, manual refreshes, and the reloads that follow a toggle or a     *)
(* device creation.  A request is answered or times out (axios timeout of  *)
(* 10 s), so an awaited load is eventually settled; the effect of a        *)
(* mounted component eventually runs.                                      *)
(***************************************************************************)
LoadSettles ==
  \E q \in Awaited("load") :
    \/ \E l \in NavLists(q.room) :
         LoadSucceeded(q, <<RoomRecord(1), RoomRecord(2)>>, l)
    \/ \E e \in NavErrors : LoadFailed(q, e)

LoadsNext ==
  \/ MountEffect
  \/ \E r \in Rooms : SwitchRoom(r)
  \/ handleBackClick
  \/ handleRefreshClick
  \/ LoadSettles
  \/ \E i \in DOMAIN devices : handleToggleDevice(i)
  \/ \E c \in Awaited("cmd") : CommandSucceeded(c)
  \/ \E c \in Awaited("cmd"), e \in NavErrors : CommandFailed(c, e)
  \/ setNewDeviceName("Lamp")
  \/ handleCreateDevice
  \/ \E q \in Awaited("create") : CreateSucceeded(q)
  \/ \E q \in Awaited("create"), e \in NavErrors : CreateFailed(q, e)
  \/ \E q \in BagToSet(pending) : SettledAfterUnmount(q)

SpecLoads ==
  Init /\ [][LoadsNext]_vars /\ WF_vars(MountEffect) /\ WF_vars(LoadSettles)


(***************************************************************************)
(* Toggles whose commands all fail, with nothing else writing the store:   *)
(* a room loaded with a light that is off, a switch that is on and a       *)
(* sensor.                                                                 *)
(***************************************************************************)
ServerSwitch(r) ==
  [id |-> DeviceIdOfRoom(r) + 2, room |-> r, device_type |-> "switch",
   signal_type |-> "digital", is_on |-> TRUE]

ToggleInit ==
  /\ LoadedRoom(<<ServerDevice(1, FALSE), ServerSwitch(1), ServerSensor(1)>>)
  /\ UpsertIdle /\ CreateFormInit /\ CanvasIdle /\ AppOnRoom

ToggleNext ==
  \/ \E i \in DOMAIN devices : handleToggleDevice(i)
  \/ \E c \in Awaited("cmd"), e \in HandlerErrors : CommandFailed(c, e)
  \/ \E s \in DOMAIN sockets : onerror(s)
  \/ \E s \in DOMAIN sockets : onclose(s)

SpecToggles == ToggleInit /\ [][ToggleNext]_vars



(***************************************************************************)
(* Properties.                                                             *)
(***************************************************************************)
\* the indices of the store's records that carry device id k
WithId(devs, k) == {i \in DOMAIN devs : IdOf(devs[i]) = k}

\* C1: after the failure handler of a toggle's command has run, the toggled
\* device's is_on in the store equals the value it had just before that
\* toggle was invoked (the isOn its handler captured).
C1_Rollback ==
  last.op = "cmd_failed" =>
    \A i \in WithId(devices, last.req.dev) : IsOn(devices[i]) = last.req.isOn

\* C2: a toggle on a digital device whose is_on is b leaves is_on = NOT b in
\* the store while its command is still awaited, and a failed command leaves
\* a non-empty error string.
C2_OptimisticFlip ==
  [][/\ last'.op = "toggle" =>
          /\ BagIn(last'.req, pending')
          /\ last'.req.dev = IdOf(devices[last'.idx])
          /\ WithId(devices', last'.req.dev) # {}
          /\ \A j \in WithId(devices', last'.req.dev) :
               /\ "is_on" \in DOMAIN devices'[j]
               /\ devices'[j].is_on = ~IsOn(devices[last'.idx])
     /\ last'.op = "cmd_failed" => error' # ""]_vars

C2_Witness ==
  /\ last.op = "cmd_failed"
  /\ error = "Could not toggle device."
  /\ WithId(devices, last.req.dev) # {}

\* the left-to-right shallow merge of a record with a sequence of payloads
RECURSIVE MergeAll(_, _)
MergeAll(rec, ps) ==
  IF ps = <<>> THEN rec ELSE MergeAll(ShallowMerge(rec, Head(ps)), Tail(ps))

\* the payloads of ps that carry id k, in order
PayloadsOf(ps, k) == SelectSeq(ps, LAMBDA p : IdOf(p) = k)

\* the ids of ps outside seen, in the order they first appear
RECURSIVE FirstSeen(_, _)
FirstSeen(ps, seen) ==
  IF ps = <<>> THEN <<>>
  ELSE IF IdOf(Head(ps)) \in seen THEN FirstSeen(Tail(ps), seen)
  ELSE <<IdOf(Head(ps))>> \o FirstSeen(Tail(ps), seen \cup {IdOf(Head(ps))})

\* the store the merge rule prescribes after the payloads ps
ExpectedStore(start, ps) ==
  LET new == FirstSeen(ps, {IdOf(start[i]) : i \in DOMAIN start})
  IN [i \in DOMAIN start |-> MergeAll(start[i], PayloadsOf(ps, IdOf(start[i])))]
       \o [j \in DOMAIN new |->
             MergeAll(Head(PayloadsOf(ps, new[j])), Tail(PayloadsOf(ps, new[j])))]

\* C3: the store after any sequence of upserts is the starting store with
\* each record shallow-merged, left to right, with the payloads of its id
\* (each field has the value of the last payload that set it, the others
\* keep their prior value), followed by one record per new id: the
\* left-to-right shallow merge of the payloads of that id.
C3_UpsertMerge == uStore = ExpectedStore(uStart, uApplied)

\* three upserts of one id onto a record that has it: the first sets name,
\* the later ones set is_on only, so name is the first payload's
C3_Witness ==
  /\ Len(uApplied) = 3
  /\ \A n \in DOMAIN uApplied : IdOf(uApplied[n]) = 1
  /\ WithId(uStart, 1) # {}
  /\ "name" \in DOMAIN uApplied[1]
  /\ "name" \notin DOMAIN uApplied[2] /\ "is_on" \in DOMAIN uApplied[2]
  /\ "name" \notin DOMAIN uApplied[3] /\ "is_on" \in DOMAIN uApplied[3]
  /\ uApplied[2].is_on # uApplied[3].is_on

\* C4 (as claimed): no two records of the store share an id.
C4_UniqueIds == UniqueIds(devices)

\* C4 (amended): no handler introduces a duplicate id into a store that has
\* none, except a REST load or a devices_snapshot whose own list names an id
\* twice.
C4_UniqueIdsPreserved ==
  [][UniqueIds(devices) /\ ~UniqueIds(devices') =>
       last'.op \in {"load_ok", "message"} /\ last'.dup]_vars

C4_Witness ==
  /\ last.op = "message" /\ ~last.ignored /\ IsUpdateFrame(last.frame)
  /\ Len(devices) = 1 /\ UniqueIds(devices)
  /\ "room" \in DOMAIN devices[1]

\* C5: after a devices_snapshot whose devices is an array, the store is that
\* array.
C5_SnapshotReplaces ==
  (last.op = "message" /\ ~last.ignored /\ IsSnapshotFrame(last.frame))
    => devices = FrameDevices(last.frame)

\* a snapshot arrived while a toggle of device 1 was awaited: the store is
\* the snapshot's list, the optimistic value and the preview are gone
C5_Witness ==
  /\ last.op = "message" /\ ~last.ignored /\ IsSnapshotFrame(last.frame)
  /\ devices = <<ServerDevice(1, FALSE)>>
  /\ \E c \in Awaited("cmd") : c.dev = 1 /\ ~c.isOn

\* C6: a device_update of an id the store lacks appends the delivered record
\* and leaves the others as they were; one of an id the store has merges into
\* the records of that id, in place, and changes nothing else.
C6_UpsertShape ==
  [][(last'.op = "message" /\ ~last'.ignored /\ IsUpdateFrame(last'.frame)) =>
       LET p == FrameDevice(last'.frame)
       IN IF WithId(devices, IdOf(p)) = {}
          THEN /\ Len(devices') = Len(devices) + 1
               /\ devices'[Len(devices')] = p
               /\ \A i \in DOMAIN devices : devices'[i] = devices[i]
          ELSE /\ Len(devices') = Len(devices)
               /\ \A i \in DOMAIN devices :
                    IF IdOf(devices[i]) = IdOf(p)
                    THEN /\ DOMAIN devices'[i] = DOMAIN devices[i] \cup DOMAIN p
                         /\ \A f \in DOMAIN p : devices'[i][f] = p[f]
                         /\ \A f \in DOMAIN devices[i] \ DOMAIN p :
                              devices'[i][f] = devices[i][f]
                    ELSE devices'[i] = devices[i]]_vars

C6_Witness ==
  /\ last.op = "message" /\ ~last.ignored /\ IsUpdateFrame(last.frame)
  /\ Len(devices) = 2
  /\ devices[2] = FrameDevice(last.frame)

\* C7: a frame that is not JSON, or of an unknown type, or a device_update
\* without a device, or a devices_snapshot without an array, changes nothing
\* in the room view and does not raise.
C7_IgnoredFrames ==
  [][(last'.op = "message" /\ last'.ignored) =>
       /\ ~last'.threw
       /\ UNCHANGED <<mounted, roomId, room, roomForm, devices, loading,
                      refreshing, error, wsStatus, socketRef, sockets,
                      pending, nav>>]_vars

C7_Witness ==
  /\ last.op = "message" /\ last.ignored
  /\ devices # <<>>

\* C8: wsStatus moves only idle -> connecting, connecting -> online and
\* any -> offline, and returns to connecting only when the room changes.
C8_StatusTransitions ==
  [][wsStatus' # wsStatus =>
       \/ wsStatus = "idle" /\ wsStatus' = "connecting"
       \/ wsStatus = "connecting" /\ wsStatus' = "online"
       \/ wsStatus' = "offline"
       \/ roomId' # roomId /\ wsStatus' = "connecting"]_vars

\* C9: a socket keeps the room it was created for; every socket but the one
\* the latest effect created has had close() called, the one that has not is
\* the displayed room's, and after the unmount none is left.
C9_OneChannel ==
  /\ [](\A s \in DOMAIN sockets :
          ~sockets[s].closeCalled =>
             s = Len(sockets) /\ mounted /\ sockets[s].room = roomId)
  /\ [][\A s \in DOMAIN sockets : sockets'[s].room = sockets[s].room]_vars

C9_Witness ==
  /\ Len(sockets) = 2
  /\ sockets[1].closeCalled /\ sockets[1].rs = "closing"
  /\ ~sockets[2].closeCalled /\ sockets[2].rs = "open"
  /\ sockets[1].room # sockets[2].room

\* C10: a load issued for a room that is no longer displayed does not write
\* the store when it completes.
C10_NoStaleWrite ==
  [][(last'.op = "load_ok" /\ last'.req.room # roomId) => devices' = devices]_vars

\* a percentage is a number within [0, 100]
InPercentRange(v) == v.t = "num" /\ 0 <= v.n /\ v.n <= 100 * v.d

\* C11: the x and y percentages a canvas handler passes to the preview and
\* commit callbacks are within [0, 100], for every pointer position, inside
\* or outside the bounding box of a canvas of positive width and height.
\* (On a rectangle without width or height the unguarded division gives NaN
\* for a pointer on its edge, which the clamp keeps.)
C11_PercentInRange ==
  (/\ last.op \in {"pointerdown", "pointermove", "release"}
   /\ containerRef.width > 0 /\ containerRef.height > 0) =>
    /\ \A k \in DOMAIN last.previews :
         InPercentRange(last.previews[k].x) /\ InPercentRange(last.previews[k].y)
    /\ \A k \in DOMAIN last.commits :
         InPercentRange(last.commits[k].x) /\ InPercentRange(last.commits[k].y)

\* a drag on the narrow canvas was released left of it and below it, and the
\* committed percentages are the clamped ones, 0 and 100
C11_Witness ==
  /\ last.op = "release"
  /\ containerRef = Container(10, 10, 10, 260)
  /\ last.event = [clientX |-> 5, clientY |-> 300]
  /\ Len(last.commits) = 1
  /\ last.commits[1].x = Num(0, 1)
  /\ last.commits[1].y = Num(100, 1)

\* C12: the release of a gesture that never went more than 3px away from
\* its pointer-down point calls the settings navigation once, for the
\* pressed device, and commits the percentages of the release point.
C12_ClickNavigates ==
  [][(last'.op = "release" /\ ~gestureFar') =>
       LET p == getPercentFromPointer(containerRef, last'.event)
       IN /\ ~BeyondThreePx(last'.event, dragStartRef)
          /\ last'.navs = <<draggingId>>
          /\ nav' = SettingsPath(draggingId)
          /\ last'.commits = <<[dev |-> draggingId, x |-> p.x, y |-> p.y]>>
          /\ BagIn(CommitRequest(draggingId, p.x, p.y), pending')]_vars

\* the sensor's marker was pressed at the corner, moved 3px and released there
C12_Witness ==
  /\ last.op = "release" /\ ~gestureFar
  /\ dragStartRef = [x |-> 10, y |-> 10]
  /\ last.event = [clientX |-> 13, clientY |-> 10]
  /\ nav = SettingsPath(IdOf(ServerSensor(1)))
  /\ containerRef.width > 0

\* C13: pointer-down and pointer-move while dragging write one preview to the
\* store and issue no request; the release writes one preview, issues one
\* commit with the coordinates of that preview and ends the drag; an event
\* that finds no drag writes nothing, issues nothing and navigates nowhere.
C13_DragStateMachine ==
  [][/\ last'.op \in {"pointerdown", "pointermove"} =>
          /\ Len(last'.previews) = 1
          /\ last'.commits = <<>> /\ last'.navs = <<>>
          /\ devices' = PositionPreview(devices, last'.previews[1].dev,
                                        last'.previews[1].x, last'.previews[1].y)
          /\ pending' = pending /\ nav' = nav
          /\ draggingId' = last'.previews[1].dev
     /\ last'.op = "pointermove" =>
          draggingId # NoId /\ draggingId' = draggingId
     /\ last'.op = "release" =>
          /\ draggingId # NoId /\ draggingId' = NoId
          /\ Len(last'.previews) = 1 /\ Len(last'.commits) = 1
          /\ last'.previews[1].dev = draggingId
          /\ last'.commits[1] = last'.previews[1]
          /\ devices' = PositionPreview(devices, draggingId,
                                        last'.previews[1].x, last'.previews[1].y)
          /\ pending' = Issue(pending, CommitRequest(draggingId,
                                last'.previews[1].x, last'.previews[1].y))
     /\ last'.op = "pointer_idle" =>
          /\ draggingId = NoId
          /\ UNCHANGED <<devices, pending, nav, mounted, draggingId>>]_vars

\* a drag was released and its commit is awaited when another release event
\* (the pointer leaving the canvas) arrives
C13_Witness ==
  /\ last.op = "pointer_idle" /\ mounted /\ didMoveRef
  /\ \E q \in Awaited("commit") :
       \E i \in DOMAIN devices :
         /\ IdOf(devices[i]) = q.dev
         /\ "position_x" \in DOMAIN devices[i]
         /\ devices[i].position_x = q.body.position_x
         /\ devices[i].position_y = q.body.position_y

\* C14: a failed position commit changes neither the store nor anything else
\* of the room view, issues no reload, and its rejection is caught.
C14_CommitFailureKeepsPreview ==
  [][last'.op = "commit_failed" =>
       /\ last'.caught
       /\ pending' = Settle(pending, last'.req)
       /\ UNCHANGED <<devices, error, loading, refreshing, room, roomForm,
                      mounted, nav>>]_vars

\* the commit of a drag failed and the store still has the dragged position
C14_Witness ==
  /\ last.op = "commit_failed" /\ mounted
  /\ \E i \in DOMAIN devices :
       /\ IdOf(devices[i]) = last.req.dev
       /\ "position_x" \in DOMAIN devices[i]
       /\ devices[i].position_x = last.req.body.position_x
       /\ devices[i].position_y = last.req.body.position_y
       /\ devices[i].position_x = Num(30, 1)

\* C15: when a creation with a name resolves, the form is reset to (empty,
\* light, empty) and the reload is issued then, not before; when it is
\* rejected, an error is set, the form is left as the user has it, and no
\* reload is issued.
C15_CreateOutcome ==
  [][/\ last'.op = "create" =>
          /\ last'.req.body.name # ""
          /\ pending' = Issue(pending, last'.req)
     /\ last'.op = "create_ok" =>
          /\ newDeviceName' = "" /\ newDeviceType' = "light"
          /\ newDeviceLocation' = ""
          /\ BagIn(last'.req, pending)
          /\ pending' = Issue(Settle(pending, last'.req), LoadRequest(roomId))
     /\ last'.op = "create_failed" =>
          /\ error' # ""
          /\ UNCHANGED <<newDeviceName, newDeviceType, newDeviceLocation>>
          /\ pending' = Settle(pending, last'.req)]_vars

\* a creation was rejected while the form holds what the user entered
C15_Witness ==
  /\ last.op = "create_failed"
  /\ error = "Could not create device."
  /\ newDeviceName = "Lamp" /\ newDeviceType = "camera"
  /\ newDeviceLocation = "Near window"
  /\ Awaited("load") = {}

\* C16: the body of the create request has room = the displayed room's id,
\* the name, type and location of the form, is_on false, and device_kind
\* and signal_type sensor and analog for the type sensor, actuator and
\* digital for every other type.
C16_CreateBody ==
  [][last'.op = "create" =>
       LET b == last'.req.body
       IN /\ DOMAIN b = {"room", "name", "device_type", "device_kind",
                         "signal_type", "location", "is_on"}
          /\ b.room = roomId
          /\ b.name = newDeviceName
          /\ b.device_type = newDeviceType
          /\ b.location = newDeviceLocation
          /\ b.is_on = FALSE
          /\ (newDeviceType = "sensor") =>
               (b.device_kind = "sensor" /\ b.signal_type = "analog")
          /\ (newDeviceType # "sensor") =>
               (b.device_kind = "actuator" /\ b.signal_type = "digital")]_vars

C16_Witness ==
  /\ last.op = "create"
  /\ last.req.body.device_type = "sensor"
  /\ last.req.body.device_kind = "sensor"
  /\ \E q \in Awaited("create") : q.body.device_type = "thermostat"

\* C17: a load whose two requests succeeded and whose rooms list has no room
\* of the load's room id sets the error, leaves room null, stores the
\* returned device list as it is, and ends with loading false.
C17_RoomNotFound ==
  [][(last'.op = "load_ok" /\ last'.req.room \notin last'.roomIds) =>
       /\ error' = "Room not found."
       /\ room' = NoRoom
       /\ devices' = last'.list
       /\ ~loading' /\ ~refreshing']_vars

\* such a load returned a list with a device of another room
C17_Witness ==
  /\ last.op = "load_ok" /\ last.req.room \notin last.roomIds
  /\ error = "Room not found." /\ room = NoRoom
  /\ \E i \in DOMAIN devices : devices[i].room # last.req.room

\* the handlers' histories of a rejected call
FailureOps ==
  {"load_failed", "cmd_failed", "create_failed", "commit_failed", "save_failed"}

\* C20: the rejection a room-view handler receives from a failed call has
\* type network_error if no response was received, and type api_error with
\* the status and the data of the response if one was; the handler's catch
\* block receives it, so the handler ends without an uncaught error.
C20_RejectionsCaught ==
  /\ last.op \in FailureOps =>
       /\ last.caught
       /\ last.type \in {"network_error", "api_error"}
       /\ last.type = "network_error" <=> ~last.responded
       /\ last.type = "api_error" => {"status", "data"} \subseteq last.fields
  /\ \A e \in HandlerErrors :
       e.hasResponse => /\ ResponseError(e).status = e.status
                        /\ ResponseError(e).data = e.data

\* a settings save failed without a response
C20_Witness ==
  /\ last.op = "save_failed" /\ last.type = "network_error"
  /\ error = "Could not save room settings."
  /\ mounted

\* C18: a page's load that fails with 401 or 403 requests the navigation to
\* /login and leaves the page's error as the load's start cleared it; a load
\* that fails otherwise sets the error and requests no navigation.
C18_AuthFailureRedirects ==
  [][last'.op = "page_load_failed" =>
       IF last'.status \in {401, 403}
       THEN /\ pathname' = "/login" /\ ~routed'
            /\ pageError' = pageError
            /\ last'.current => pageError' = ""
       ELSE /\ UNCHANGED <<pathname, routed>>
            /\ last'.current => pageError' # ""]_vars

\* the load of the device settings page was answered 403
C18_Witness ==
  /\ last.op = "page_load_failed" /\ last.status = 403 /\ last.current
  /\ last.req.page = "settings"
  /\ pathname = "/login" /\ pageError = ""

\* C19: from a 401/403 answer to a load of a logged-in user until the next
\* login, the only page the application mounts is the login page.
C19_StaysOnLogin == (sessionExpired /\ routed) => page = "login"

\* the fixed fallback string of each room-view operation that shows an error
Fallback(op) ==
  CASE op = "load_failed" -> "Failed to load room data."
    [] op = "cmd_failed" -> "Could not toggle device."
    [] op = "create_failed" -> "Could not create device."
    [] op = "save_failed" -> "Could not save room settings."

ShownFailures == {"load_failed", "cmd_failed", "create_failed", "save_failed"}

\* C21 as stated: the error shown after a failed operation is the detail
\* field of the response body whenever the body has one, and the operation's
\* fallback string otherwise.
C21_DetailWhenPresent ==
  [][(last'.op \in ShownFailures /\ mounted') =>
       error' = IF "detail" \in DOMAIN last'.body THEN last'.body.detail
                ELSE Fallback(last'.op)]_vars

\* C21: the error shown after a failed load, toggle, creation or save is the
\* detail field of the response body when the body has one that is not
\* empty, and the operation's fallback string otherwise; without a response
\* it is always the fallback string.
C21_DetailOrFallback ==
  [][(last'.op \in ShownFailures /\ mounted') =>
       /\ error' = IF "detail" \in DOMAIN last'.body /\ last'.body.detail # ""
                   THEN last'.body.detail
                   ELSE Fallback(last'.op)
       /\ ~last'.responded => error' = Fallback(last'.op)]_vars

\* a toggle was rejected with a detail, which is the error shown
C21_Witness ==
  /\ mounted /\ last.op = "cmd_failed" /\ last.responded
  /\ "detail" \in DOMAIN last.body /\ last.body.detail = "Not allowed."
  /\ error = "Not allowed."

\* C22: when the server rejects a login or register with a body, the error
\* shown on the login page is the body's detail, or else its first
\* non_field_errors entry, and the generic fallback only when the body has
\* neither.
C22_LoginErrorShown ==
  [][(last'.op = "login_failed" /\ last'.current /\ last'.responded) =>
       LET b == last'.body
       IN loginError' =
            IF "detail" \in DOMAIN b /\ b.detail # "" THEN b.detail
            ELSE IF "non_field_errors" \in DOMAIN b /\ Len(b.non_field_errors) >= 1
                 THEN b.non_field_errors[1]
            ELSE "Something went wrong. Please check your input."]_vars

\* C23: every request sent carries the header Authorization: Token <value>
\* exactly when the storage item authToken holds a token, and <value> is then
\* the token issued by the most recent successful login or register; after a
\* login or register response without a token no request carries a header
\* built from a missing or stale token.
C23_TokenHeader ==
  [][("sent" \in DOMAIN last') =>
       \A i \in DOMAIN last'.sent :
         LET h == last'.sent[i]
         IN /\ ("Authorization" \in DOMAIN h) <=> (authToken # NoToken)
            /\ ("Authorization" \in DOMAIN h) =>
                 (issuedToken # NoToken /\ h.Authorization = <<"Token", issuedToken>>)]_vars

\* C24: once a user is authenticated, the user state stays non-null and the
\* stored token and profile stay in storage through every step, until
\* logout is invoked.
C24_SessionPersists ==
  [][(user # NoUser /\ ~logoutInvoked') =>
       (user' = user /\ authUser' = authUser /\ authToken' = authToken)]_vars

\* C25: a save is sent as multipart (name, slug, background_image) exactly
\* when a background file is pending, and otherwise as a JSON patch of name
\* and slug only; a successful save clears the pending file, so the next
\* save is JSON unless a file is chosen again; a failed save keeps the form,
\* the pending file included.
C25_SaveEncoding ==
  [][/\ last'.op = "save" =>
          LET q == last'.req
          IN /\ q.encoding = IF roomForm.backgroundFile THEN "multipart" ELSE "json"
             /\ DOMAIN q.body = IF roomForm.backgroundFile
                                THEN {"name", "slug", "background_image"}
                                ELSE {"name", "slug"}
             /\ q.body.name = roomForm.roomName /\ q.body.slug = roomForm.roomSlug
             /\ q.room = room.id
     /\ last'.op = "save_ok" => ~roomForm'.backgroundFile
     /\ last'.op = "save_failed" => roomForm' = roomForm]_vars

\* a JSON save sent after a multipart save had succeeded
C25_Witness ==
  /\ last.op = "save" /\ last.req.encoding = "json"
  /\ room # NoRoom /\ room.background_image_url = "/media/rooms/bg.png"
  /\ ~roomForm.backgroundFile

\* a save failed while a file was pending, and the file is still pending
C25_WitnessFailed ==
  /\ last.op = "save_failed" /\ last.req.encoding = "multipart"
  /\ roomForm.backgroundFile

\* C26: applying a device_update payload that was just applied leaves the
\* store as the first application left it, also when the first appended it.
C26_UpsertIdempotent ==
  [][(/\ Len(uApplied) >= 1
      /\ Len(uApplied') = Len(uApplied) + 1
      /\ uApplied'[Len(uApplied')] = uApplied[Len(uApplied)]) =>
       uStore' = uStore]_vars

\* a payload whose id the starting store lacked was applied twice in a row
C26_Witness ==
  /\ Len(uApplied) = 2 /\ uApplied[1] = uApplied[2]
  /\ "id" \in DOMAIN uApplied[1]
  /\ \A i \in DOMAIN uStart :
       "id" \in DOMAIN uStart[i] => uStart[i].id # uApplied[1].id
  /\ Len(uStore) = Len(uStart) + 1
  /\ uPrev = uStore

\* C27: the toggle command is sent to the toggled device's id and its
\* payload is the single field state, which is on exactly when the optimistic
\* is_on written to the store is true, and off otherwise.
C27_TogglePayload ==
  [][last'.op = "toggle" =>
       LET q == last'.req
       IN /\ q.dev = IdOf(devices[last'.idx])
          /\ DOMAIN q.body = {"state"}
          /\ q.body.state \in {"on", "off"}
          /\ \A j \in WithId(devices', q.dev) :
               (q.body.state = "on") <=> (devices'[j].is_on = TRUE)]_vars

\* a device that was on has been toggled: the command says off
C27_Witness ==
  /\ last.op = "toggle" /\ last.req.body = [state |-> "off"]
  /\ \E j \in WithId(devices, last.req.dev) : devices[j].is_on = FALSE

\* C28: a load response, a devices_snapshot and a device_update are each
\* applied as an overwrite when they arrive: right after a load or a
\* snapshot the store is the delivered list, and right after a device_update
\* every record of the payload's id holds the payload's value in each field
\* the payload carries, whatever was issued or applied before.
C28_ArrivalOrderWins ==
  [][/\ last'.op = "load_ok" => devices' = last'.list
     /\ (last'.op = "message" /\ ~last'.ignored /\ IsSnapshotFrame(last'.frame)) =>
          devices' = FrameDevices(last'.frame)
     /\ (last'.op = "message" /\ ~last'.ignored /\ IsUpdateFrame(last'.frame)) =>
          LET p == FrameDevice(last'.frame)
          IN /\ WithId(devices', IdOf(p)) # {}
             /\ \A j \in WithId(devices', IdOf(p)) :
                  \A f \in DOMAIN p :
                    f \in DOMAIN devices'[j] /\ devices'[j][f] = p[f]]_vars

\* of two loads in flight one has been applied and the other is still awaited
C28_Witness ==
  /\ last.op = "load_ok" /\ devices = last.list
  /\ Awaited("load") # {}
  /\ \E c \in Awaited("load") : c = last.req

\* C29: an error or close event of a channel that a room switch tore down,
\* arriving after the new room's channel was created, neither sets wsStatus
\* to offline nor clears the socket reference; and while the current channel
\* is open and has had no error or close event, wsStatus is online.
C29_CurrentChannelOnly ==
  /\ [][(last'.op \in {"error", "close"} /\ last'.sock < Len(sockets)) =>
          (wsStatus' = wsStatus /\ socketRef' = socketRef)]_vars
  /\ [](( /\ mounted /\ sockets # <<>>
          /\ sockets[Len(sockets)].rs = "open"
          /\ ~sockets[Len(sockets)].err) => wsStatus = "online")

\* C30: the toggle itself issues no load; when its command resolves, a load
\* of the handler's room is issued and the store is left as it is; the store
\* then becomes the list that load returns, and a load that fails leaves the
\* store, the optimistic value included, as it is.
C30_ReloadAfterToggle ==
  [][/\ last'.op = "toggle" =>
          \A q \in BagToSet(pending') :
            q.kind = "load" => CopiesIn(q, pending') = CopiesIn(q, pending)
     /\ last'.op = "cmd_ok" =>
          /\ pending' = Issue(Settle(pending, last'.req), LoadRequest(last'.req.room))
          /\ CopiesIn(LoadRequest(last'.req.room), pending')
               = CopiesIn(LoadRequest(last'.req.room), pending) + 1
          /\ devices' = devices
     /\ last'.op = "load_ok" => devices' = last'.list
     /\ last'.op = "load_failed" => devices' = devices]_vars

\* the reload after a successful toggle failed: the optimistic value stays
C30_Witness ==
  /\ mounted /\ last.op = "load_failed"
  /\ Awaited("cmd") = {} /\ Awaited("load") = {}
  /\ \E i \in DOMAIN devices : devices[i].is_on = TRUE

\* C31: once a pointer-move of the gesture was more than 3px from its
\* pointer-down point, the release calls no settings navigation, wherever
\* the pointer is released; the next pointer-down resets the flag, and the
\* release of a gesture without such a move navigates again.
C31_MaxDisplacementDecides ==
  [][/\ (last'.op = "release" /\ gestureFar) =>
          (last'.navs = <<>> /\ nav' = nav /\ mounted')
     /\ last'.op = "pointerdown" => ~didMoveRef'
     /\ (last'.op = "release" /\ ~gestureFar) =>
          last'.navs = <<draggingId>>]_vars

\* a gesture went far away, came back to its start and was released there
C31_Witness ==
  /\ last.op = "release" /\ gestureFar
  /\ ~BeyondThreePx(last.event, dragStartRef)
  /\ last.navs = <<>> /\ mounted

\* the requests of a bag after a step that were not in it before the step
Added(before, after) ==
  {q \in BagToSet(after) : CopiesIn(q, after) > CopiesIn(q, before)}

IgnoredSubmits ==
  {"create_ignored", "create_room_ignored", "create_integration_ignored",
   "add_endpoint_ignored"}

\* the required fields of the form a creation request of this kind comes from
RequiredFilled(kind) ==
  CASE kind = "create" -> newDeviceName # ""
    [] kind = "room" -> pageForm.newRoomName # "" /\ pageForm.newRoomSlug # ""
    [] kind = "integration" -> pageForm.newIntegrationName # ""
    [] kind = "endpoint" -> /\ pageForm.device # NoDevice
                            /\ pageForm.endpointConnectorId # ""
                            /\ pageForm.endpointAddress # ""
    [] OTHER -> TRUE

\* C32: a step that issues a creation request (device, room, integration,
\* endpoint) starts from a form whose required fields are all non-empty, and
\* a submit that returns at its check of the required fields issues nothing
\* and leaves every component state as it was.
C32_RequiredFields ==
  [][/\ \A q \in Added(pending, pending') :
          q.kind = "create" => RequiredFilled("create")
     /\ \A q \in Added(pageCalls, pageCalls') : RequiredFilled(q.kind)
     /\ last'.op \in IgnoredSubmits =>
          /\ UNCHANGED <<roomVars_NoLast, otherVars>>
          /\ \/ ~RequiredFilled("create") /\ last'.op = "create_ignored"
             \/ ~RequiredFilled("room") /\ last'.op = "create_room_ignored"
             \/ /\ ~RequiredFilled("integration")
                /\ last'.op = "create_integration_ignored"
             \/ ~RequiredFilled("endpoint") /\ last'.op = "add_endpoint_ignored"
    ]_vars

\* a room submit with a name and no slug was ignored
C32_Witness ==
  /\ last.op = "create_room_ignored"
  /\ pageForm.newRoomName # "" /\ pageForm.newRoomSlug = ""
  /\ pageCalls = EmptyBag /\ pageLoads = EmptyBag

\* digital-like: signal type digital, or device type switch or light
DigitalLike(d) ==
  \/ "signal_type" \in DOMAIN d /\ d.signal_type = "digital"
  \/ "device_type" \in DOMAIN d /\ d.device_type = "switch"
  \/ "device_type" \in DOMAIN d /\ d.device_type = "light"

\* C33: a toggle of a device that is not digital-like issues no command and
\* no reload and leaves the device store as it is; it clears the error and
\* changes nothing else.  Only digital-like devices are ever commanded.
C33_NonDigitalToggle ==
  [][/\ last'.op = "toggle" => DigitalLike(devices[last'.idx])
     /\ (/\ last'.op \in {"toggle", "toggle_ignored"}
         /\ ~DigitalLike(devices[last'.idx])) =>
          /\ pending' = pending /\ devices' = devices /\ error' = ""
          /\ UNCHANGED <<mounted, roomId, room, roomForm, loading, refreshing,
                         wsStatus, socketRef, sockets, nav, otherVars>>
    ]_vars

\* the sensor was toggled while an error was shown and a command was awaited
C33_Witness ==
  /\ last.op = "toggle_ignored" /\ last.errorBefore # "" /\ error = ""
  /\ ~DigitalLike(devices[last.idx])
  /\ Awaited("load") = {}

\* the is_on the devices of ToggleInit were loaded with
LoadedOn(id) == id = IdOf(ServerSwitch(1))

\* the commands awaited for the device with this id
InFlight(id) == {q \in Awaited("cmd") : q.dev = id}
Flights(id) ==
  LET Sum[S \in SUBSET InFlight(id)] ==
        IF S = {} THEN 0
        ELSE LET q == CHOOSE x \in S : TRUE
             IN CopiesIn(q, pending) + Sum[S \ {q}]
  IN Sum[InFlight(id)]

\* C34: when only toggles and failures of their commands write the store,
\* a device's is_on differs from the value it was loaded with exactly while
\* an odd number of its commands is in flight; so once every failure handler
\* has run, in whatever order, is_on is the value before the first toggle.
C34_FailedTogglesRestore ==
  \A i \in DOMAIN devices :
    LET id == IdOf(devices[i])
    IN /\ InFlight(id) = {} => IsOn(devices[i]) = LoadedOn(id)
       /\ IsDigital(devices[i]) =>
            (IsOn(devices[i]) = LoadedOn(id)) = (Flights(id) % 2 = 0)

\* the failure handler that ran last belongs to a toggle invoked on the
\* flipped state, so while an earlier toggle of the light was in flight
C34_Witness ==
  /\ last.op = "cmd_failed" /\ last.req.dev = IdOf(ServerDevice(1, FALSE))
  /\ last.req.isOn = TRUE
  /\ InFlight(last.req.dev) = {}
  /\ \A i \in WithId(devices, last.req.dev) : IsOn(devices[i]) = FALSE

\* C35: a room load whose Promise.all was rejected (either of its two
\* requests failed) writes neither the device store, nor the room, nor the
\* settings form: the devices held before the failure are still held.
C35_FailedLoadKeepsState ==
  [][last'.op = "load_failed" =>
       devices' = devices /\ room' = room /\ roomForm' = roomForm]_vars

\* a refresh of a loaded room failed and its devices are still shown
C35_Witness ==
  /\ last.op = "load_failed" /\ mounted
  /\ devices # <<>> /\ room # NoRoom
  /\ error # ""

\* C36: a mounted room view whose effect has run and that awaits no load has
\* loading and refreshing both false, whatever loads, refreshes and reloads
\* came before and however they ended; and whenever a flag of a mounted view
\* is true, the view is later unmounted or has both flags false.
C36_LoadsFinish ==
  /\ []((mounted /\ sockets # <<>> /\ Awaited("load") = {}) =>
          (~loading /\ ~refreshing))
  /\ (mounted /\ (loading \/ refreshing)) ~>
       (~mounted \/ (~loading /\ ~refreshing))

\* the reload that followed a toggle failed and was the last load awaited
C36_Witness ==
  /\ last.op = "load_failed" /\ mounted
  /\ Awaited("load") = {} /\ ~loading /\ ~refreshing
  /\ \E i \in DOMAIN devices : IsOn(devices[i])

ProtectedPages == {"dashboard", "room", "settings"}

\* C37: whenever the routes have rendered, a protected view (dashboard, room,
\* device settings) is shown only with a user and the login form only
\* without one; a login or registration whose result carries a user leaves
\* the application on the path whose element is the dashboard, and the
\* completion of a logout leaves it on the path whose element is the login
\* form; what the routes render is the element of the path.
C37_RouteGuard ==
  [][/\ routed' => /\ page' \in ProtectedPages => user' # NoUser
                   /\ page' = "login" => user' = NoUser
     /\ (last'.op = "login_ok" /\ last'.user # NoUser) =>
          /\ user' = last'.user
          /\ RouteElement(pathname', user') = [page |-> "dashboard"]
     /\ last'.op = "logout_done" =>
          RouteElement(pathname', user') = [page |-> "login"]
     /\ (last'.op = "render" /\ routed') =>
          RouteElement(pathname', user') = [page |-> page']
    ]_vars

\* the dashboard rendered for a user who logged in on the login form
C37_Witness ==
  /\ routed /\ page = "dashboard" /\ user = "alice"
  /\ last.op = "render" /\ pageInst >= 2
  /\ issuedToken # NoToken /\ ~logoutInvoked

\* C38: when a logout completes, whether its server request succeeded or
\* failed, the storage keys authToken and authUser are absent, the user
\* state is null and the application is on the login path, whose element is
\* then the login form.
C38_LogoutEndsSession ==
  [][last'.op = "logout_done" =>
       /\ authToken' = NoToken /\ authUser' = NoUser
       /\ user' = NoUser
       /\ pathname' = "/login"
       /\ RouteElement(pathname', user') = [page |-> "login"]]_vars

\* a logout whose server request failed has completed
C38_Witness ==
  /\ last.op = "logout_done" /\ ~last.ok
  /\ authToken = NoToken /\ authUser = NoUser /\ user = NoUser
  /\ pathname = "/login"

====
